---- MODULE Spec2Model ----
(***************************************************************************)
(* git_onboard.py: onboarding of a local project folder onto a remote Git  *)
(* host.  The module models                                                *)
(*   - the Diff Engine (compare_local_vs_remote and its helpers) as        *)
(*     operators over character sequences, exercised by SpecDiff;          *)
(*   - one run of main() with the recovery path and the normal onboarding  *)
(*     path as a sequential state machine, exercised by Spec.              *)
(* Strings of the program are sequences of one-character strings, so that  *)
(* strip, startswith, endswith, `in' and split are computed, not assumed.  *)
(* Every external command (git, ssh-keygen, package manager) and every     *)
(* prompt is one action whose outcome is chosen by the environment.        *)
(***************************************************************************)
EXTENDS Naturals, Integers, Sequences, FiniteSets, TLC

VARIABLES
    pc,              \* position of the run
    tree,            \* working files of the project: path -> [bytes, readable]
    gitDir,          \* project/.git: "absent", "dir" or "file"
    head,            \* TRUE when the repository has a commit (HEAD resolves)
    index,           \* paths staged in the repository's index
    committed,       \* paths recorded in the commits of the repository
    branch,          \* the checked-out branch of the repository, "none" without one
    remote,          \* tracked files of the remote: path -> [bytes, readable]
    config_defaults, \* the loaded config file: key -> value
    git_installed,   \* TRUE when the git executable is on the PATH
    argv,            \* the command line: flag -> the values given for it (none or one)
    host,            \* the machine: commands on the PATH, files in ~/.ssh, login name known
    tempDirs,        \* temporary clone directories that exist on disk
    made,            \* temporary clone directories created so far: id -> creator
    frame,           \* locals of the running functions
    events,          \* what the latest step issued: commands, prompts, returns
    hist,            \* what has happened so far in the run, as far as claims need it
    exit             \* process status: "running", "0", "1" or "uncaught"

vars == <<pc, tree, gitDir, head, index, committed, branch, remote, config_defaults,
          git_installed, argv, host, tempDirs, made, frame, events, hist, exit>>

repoVars == <<gitDir, head, index, committed, branch>>
envVars == <<tree, remote, config_defaults, git_installed, argv, host>>
tmpVars == <<tempDirs, made>>

-----------------------------------------------------------------------------
(* Bounds of the model                                                     *)

\* at most this many ordinary files in the project tree of SpecDiff
MaxLocal == 2
\* at most this many tracked files in the remote of SpecDiff
MaxRemote == 2

-----------------------------------------------------------------------------
(* Strings                                                                 *)

NoStr == << >>

StartsWith(s, p) == Len(p) <= Len(s) /\ SubSeq(s, 1, Len(p)) = p

EndsWith(s, p) == Len(p) <= Len(s) /\ SubSeq(s, Len(s) - Len(p) + 1, Len(s)) = p

\* Python's `p in s' on strings
Contains(s, p) == \E i \in 0..(Len(s) - Len(p)) : SubSeq(s, i + 1, i + Len(p)) = p

IsSpace(c) == c \in {" ", "\t", "\n"}

RECURSIVE LStrip(_)
LStrip(s) == IF s # << >> /\ IsSpace(Head(s)) THEN LStrip(Tail(s)) ELSE s

RECURSIVE RStrip(_)
RStrip(s) ==
    IF s # << >> /\ IsSpace(s[Len(s)]) THEN RStrip(SubSeq(s, 1, Len(s) - 1)) ELSE s

\* str.strip()
Strip(s) == RStrip(LStrip(s))

LowerChar(c) == CASE c = "Y" -> "y" [] c = "N" -> "n" [] OTHER -> c

\* str.lower()
Lower(s) == [i \in 1..Len(s) |-> LowerChar(s[i])]

\* str.split(sep) for a one-character separator
RECURSIVE Split(_, _)
Split(s, sep) ==
    IF \A i \in 1..Len(s) : s[i] # sep
    THEN <<s>>
    ELSE LET k == CHOOSE i \in 1..Len(s) :
                      s[i] = sep /\ \A j \in 1..(i - 1) : s[j] # sep
         IN  <<SubSeq(s, 1, k - 1)>> \o Split(SubSeq(s, k + 1, Len(s)), sep)

\* x in list
InList(x, list) == \E i \in 1..Len(list) : list[i] = x

Range(list) == {list[i] : i \in 1..Len(list)}

\* the orders in which a set can be enumerated
Orders(S) ==
    {q \in [1..Cardinality(S) -> S] : \A i, j \in 1..Cardinality(S) : q[i] = q[j] => i = j}

-----------------------------------------------------------------------------
(* Console                                                                 *)

\* Prompt.ask: the typed line, or the default when the line is empty
PromptAsk(typed, default) == IF typed # NoStr THEN typed ELSE default

\* Confirm.ask: the typed line, or "y"/"n" by the default; yes iff it starts with y
ConfirmAsk(typed, default) ==
    LET answer == IF typed # NoStr THEN typed ELSE (IF default THEN <<"y">> ELSE <<"n">>)
    IN  StartsWith(Lower(answer), <<"y">>)

\* lines a user can type at a yes/no prompt
YesNoLines == {NoStr, <<"y">>, <<"n">>, <<"Y">>}

-----------------------------------------------------------------------------
(* Files                                                                   *)

README == <<"R", "E", "A", "D", "M", "E", ".", "m", "d">>
ExtraTxt == <<"e", "x", "t", "r", "a", ".", "t", "x", "t">>
BuildLog == <<"b", "u", "i", "l", "d", "/", "a", ".", "l", "o", "g">>
BuildDir == <<"b", "u", "i", "l", "d">>
GitignorePath == <<".", "g", "i", "t", "i", "g", "n", "o", "r", "e">>
DotGit == <<".", "g", "i", "t">>
GitConfigPath == <<".", "g", "i", "t", "/", "c", "o", "n", "f", "i", "g">>

\* ordinary files a project or a remote may hold
OrdinaryPaths == {README, ExtraTxt, BuildLog}

File(b, r) == [bytes |-> b, readable |-> r]

LocalFileStates == {File("C1", TRUE), File("C2", TRUE), File("C1", FALSE)}
\* the files of a fresh clone are readable by the process that cloned it
RemoteFileStates == {File("C1", TRUE)}

\* the patterns create_default_gitignore writes
default_patterns == <<
    <<"#", " ", "D", "e", "p", "e", "n", "d", "e", "n", "c", "i", "e", "s">>,
    <<"n", "o", "d", "e", "_", "m", "o", "d", "u", "l", "e", "s", "/">>,
    <<"n", "p", "m", "-", "d", "e", "b", "u", "g", ".", "l", "o", "g", "*">>,
    <<"y", "a", "r", "n", "-", "d", "e", "b", "u", "g", ".", "l", "o", "g", "*">>,
    <<"y", "a", "r", "n", "-", "e", "r", "r", "o", "r", ".", "l", "o", "g", "*">>,
    <<>>,
    <<"#", " ", "B", "u", "i", "l", "d", " ", "o", "u", "t", "p", "u", "t", "s">>,
    <<"d", "i", "s", "t", "/">>,
    <<"b", "u", "i", "l", "d", "/">>,
    <<".", "n", "e", "x", "t", "/">>,
    <<"o", "u", "t", "/">>,
    <<>>,
    <<"#", " ", "E", "n", "v", "i", "r", "o", "n", "m", "e", "n", "t", " ", "f", "i", "l", "e", "s">>,
    <<".", "e", "n", "v">>,
    <<".", "e", "n", "v", ".", "l", "o", "c", "a", "l">>,
    <<".", "e", "n", "v", ".", "d", "e", "v", "e", "l", "o", "p", "m", "e", "n", "t", ".", "l", "o", "c", "a", "l">>,
    <<".", "e", "n", "v", ".", "t", "e", "s", "t", ".", "l", "o", "c", "a", "l">>,
    <<".", "e", "n", "v", ".", "p", "r", "o", "d", "u", "c", "t", "i", "o", "n", ".", "l", "o", "c", "a", "l">>,
    <<>>,
    <<"#", " ", "I", "D", "E", " ", "f", "i", "l", "e", "s">>,
    <<".", "v", "s", "c", "o", "d", "e", "/">>,
    <<".", "i", "d", "e", "a", "/">>,
    <<"*", ".", "s", "w", "p">>,
    <<"*", ".", "s", "w", "o">>,
    <<"*", "~">>,
    <<>>,
    <<"#", " ", "O", "S", " ", "f", "i", "l", "e", "s">>,
    <<".", "D", "S", "_", "S", "t", "o", "r", "e">>,
    <<"T", "h", "u", "m", "b", "s", ".", "d", "b">>,
    <<>>,
    <<"#", " ", "L", "o", "g", "s">>,
    <<"*", ".", "l", "o", "g">>,
    <<"l", "o", "g", "s", "/">>,
    <<>>,
    <<"#", " ", "R", "u", "n", "t", "i", "m", "e", " ", "d", "a", "t", "a">>,
    <<"p", "i", "d", "s">>,
    <<"*", ".", "p", "i", "d">>,
    <<"*", ".", "s", "e", "e", "d">>,
    <<"*", ".", "p", "i", "d", ".", "l", "o", "c", "k">>,
    <<>>,
    <<"#", " ", "C", "o", "v", "e", "r", "a", "g", "e", " ", "d", "i", "r", "e", "c", "t", "o", "r", "y", " ", "u", "s", "e", "d", " ", "b", "y", " ", "t", "o", "o", "l", "s", " ", "l", "i", "k", "e", " ", "i", "s", "t", "a", "n", "b", "u", "l">>,
    <<"c", "o", "v", "e", "r", "a", "g", "e", "/">>,
    <<>>,
    <<"#", " ", "T", "e", "m", "p", "o", "r", "a", "r", "y", " ", "f", "o", "l", "d", "e", "r", "s">>,
    <<"t", "m", "p", "/">>,
    <<"t", "e", "m", "p", "/">>,
    <<>>,
    <<"#", " ", "P", "y", "t", "h", "o", "n">>,
    <<"_", "_", "p", "y", "c", "a", "c", "h", "e", "_", "_", "/">>,
    <<"*", ".", "p", "y", "[", "c", "o", "d", "]">>,
    <<"*", "$", "p", "y", ".", "c", "l", "a", "s", "s">>,
    <<"*", ".", "s", "o">>,
    <<".", "P", "y", "t", "h", "o", "n">>,
    <<"e", "n", "v", "/">>,
    <<"v", "e", "n", "v", "/">>,
    <<"E", "N", "V", "/">>,
    <<"e", "n", "v", ".", "b", "a", "k", "/">>,
    <<"v", "e", "n", "v", ".", "b", "a", "k", "/">>,
    <<>>,
    <<"#", " ", "J", "a", "v", "a">>,
    <<"*", ".", "c", "l", "a", "s", "s">>,
    <<"*", ".", "j", "a", "r">>,
    <<"t", "a", "r", "g", "e", "t", "/">>,
    <<>>,
    <<"#", " ", "G", "o">>,
    <<"*", ".", "e", "x", "e">>,
    <<"*", ".", "e", "x", "e", "~">>,
    <<"*", ".", "d", "l", "l">>,
    <<"*", ".", "s", "o">>,
    <<"*", ".", "d", "y", "l", "i", "b">>,
    <<>>,
    <<"#", " ", "D", "o", "c", "k", "e", "r">>,
    <<".", "d", "o", "c", "k", "e", "r", "i", "g", "n", "o", "r", "e">>,
    <<>>,
    <<"#", " ", "G", "i", "t">>,
    <<".", "g", "i", "t", "/">>,
    <<".", "g", "i", "t", "i", "g", "n", "o", "r", "e">>
>>

CustomHeader ==
    <<"#", " ", "C", "u", "s", "t", "o", "m", " ", "p", "a", "t", "t", "e", "r", "n", "s">>
CustomPattern == <<"*", ".", "t", "m", "p">>

\* the lines of a file, by its bytes; only .gitignore files are read as lines
FileLines(bytes) ==
    CASE bytes = "ig_log" -> << <<"*", ".", "l", "o", "g">>, NoStr, <<"#", "R", "E", "A", "D">> >>
      [] bytes = "ig_build" -> << <<" ", "b", "u", "i", "l", "d", "/", " ">> >>
      [] bytes = "ig_sub" -> << <<"x", "t", "r", "a">> >>
      [] bytes = "ig_blank" -> << <<" ">>, NoStr >>
      [] bytes = "ig_default" -> default_patterns
      [] bytes = "ig_default_custom" ->
             default_patterns \o <<NoStr, CustomHeader>> \o <<CustomPattern>>
      [] OTHER -> << >>

IgnoreFileStates ==
    {File("ig_log", TRUE), File("ig_build", TRUE), File("ig_sub", TRUE), File("ig_log", FALSE)}

-----------------------------------------------------------------------------
(* Diff Engine                                                             *)

\* what can be at project/.git: nothing, because the project folder itself
\* does not exist or because it has no such entry; a directory; a regular file
DotGitStates == {"no_project", "absent", "dir", "file"}

\* Path.exists() of project/.git
Exists(g) == g \notin {"no_project", "absent"}

\* Path.is_dir() of project/.git
IsDir(g) == g = "dir"

\* a test that is content with any entry named .git
is_git_repository_AnyEntry(g) == Exists(g)

\* is_git_repository: project/.git exists and is a directory
is_git_repository(g) == Exists(g) /\ IsDir(g)

\* the bytes behind the content names of the model; C1 and C2 agree on their
\* first bytes and differ in the last one
Content(bytes) ==
    CASE bytes = "C1" -> <<72, 105, 33>>
      [] bytes = "C2" -> <<72, 105, 63>>
      [] OTHER -> <<35>>

\* the size of one f.read(...) in calculate_file_hash, scaled down
ChunkSize == 2

\* reading that stops after the first chunk
ReadChunks_FirstOnly(data) ==
    IF data = << >> THEN << >>
    ELSE <<SubSeq(data, 1, IF Len(data) < ChunkSize THEN Len(data) ELSE ChunkSize)>>

\* iter(lambda: f.read(4096), b""): the chunks up to the first empty read
RECURSIVE ReadChunks(_)
ReadChunks(data) ==
    IF data = << >> THEN << >>
    ELSE LET n == IF Len(data) < ChunkSize THEN Len(data) ELSE ChunkSize
         IN  <<SubSeq(data, 1, n)>> \o ReadChunks(SubSeq(data, n + 1, Len(data)))

\* hash_sha256.update(chunk) for each chunk: the message fed to the hash
RECURSIVE Update(_, _)
Update(message, chunks) ==
    IF chunks = << >> THEN message
    ELSE Update(message \o Head(chunks), Tail(chunks))

\* bytes of a SHA-256 digest
DigestSize == 32

\* SHA-256 taken as injective on the messages of the model: the digest is the
\* message filled up with zero bytes
Sha256(message) ==
    [i \in 1..DigestSize |-> IF i <= Len(message) THEN message[i] ELSE 0]

HexDigits ==
    <<"0", "1", "2", "3", "4", "5", "6", "7", "8", "9", "a", "b", "c", "d", "e", "f">>

\* hexdigest(): two lowercase hexadecimal digits per byte
Hexdigest(digest) ==
    [i \in 1..(2 * Len(digest)) |->
        IF i % 2 = 1 THEN HexDigits[(digest[(i + 1) \div 2] \div 16) + 1]
        ELSE HexDigits[(digest[i \div 2] % 16) + 1]]

\* a hash that answers for an unreadable file as for an empty one
calculate_file_hash_NoSentinel(files, path) ==
    IF path \in DOMAIN files /\ files[path].readable
    THEN Hexdigest(Sha256(Update(<< >>, ReadChunks(Content(files[path].bytes)))))
    ELSE Hexdigest(Sha256(<< >>))

\* calculate_file_hash: the hexadecimal digest of the bytes read chunk by
\* chunk, or the empty string when the file cannot be opened or read
calculate_file_hash(files, path) ==
    IF path \in DOMAIN files /\ files[path].readable
    THEN Hexdigest(Sha256(Update(<< >>, ReadChunks(Content(files[path].bytes)))))
    ELSE NoStr

\* get_tracked_files_from_clone: one Path per non-blank line of `git ls-files',
\* or the empty list when the command fails
get_tracked_files_from_clone(ls_ok, ls_lines) ==
    IF ls_ok
    THEN LET NonBlank(line) == Strip(line) # NoStr
             kept == SelectSeq(ls_lines, NonBlank)
         IN  [i \in 1..Len(kept) |-> Strip(kept[i])]
    ELSE << >>

\* git ls-files prints the index, which git keeps sorted by path bytes
PathRank(p) ==
    CASE p = GitignorePath -> 1
      [] p = README -> 2
      [] p = BuildLog -> 3
      [] p = ExtraTxt -> 4
      [] OTHER -> 5

LsFiles(clone) ==
    CHOOSE q \in Orders(DOMAIN clone) :
        \A i, j \in 1..Len(q) : i < j => PathRank(q[i]) < PathRank(q[j])

\* what project_path.rglob("*") can yield: the working files, the directories
\* that hold them, and the repository metadata
LocalEntries(files, g) ==
    {[path |-> p, is_file |-> TRUE] : p \in DOMAIN files}
    \cup (IF BuildLog \in DOMAIN files THEN {[path |-> BuildDir, is_file |-> FALSE]} ELSE {})
    \cup (CASE g = "dir" -> {[path |-> DotGit, is_file |-> FALSE],
                             [path |-> GitConfigPath, is_file |-> TRUE]}
            [] g = "file" -> {[path |-> DotGit, is_file |-> TRUE]}
            [] OTHER -> {})

\* the walk orders of rglob: every order of the regular files, after the
\* other entries (which the scan drops, wherever they come)
Walks(files, g) ==
    LET ents == LocalEntries(files, g)
        regular == {e \in ents : e.is_file}
        rest == ents \ regular
        restSeq == CHOOSE q \in Orders(rest) : TRUE
    IN  {restSeq \o q : q \in Orders(regular)}

\* the scan of compare_local_vs_remote: regular files with no ".git" part
ScanLocal(walk) ==
    LET Keep(e) == e.is_file /\ ~InList(DotGit, Split(e.path, "/"))
        kept == SelectSeq(walk, Keep)
    IN  [i \in 1..Len(kept) |-> kept[i].path]

\* gitignore_patterns of compare_local_vs_remote: the stripped lines that are neither empty nor comments
GitignorePatterns(lines) ==
    LET stripped == [i \in 1..Len(lines) |-> Strip(lines[i])]
        IsPattern(line) == line # NoStr /\ ~StartsWith(line, <<"#">>)
    IN  SelectSeq(stripped, IsPattern)

\* the patterns of project/.gitignore: stripped, non-empty, non-comment lines;
\* none when the file is missing or cannot be read
ReadGitignore(files) ==
    IF GitignorePath \in DOMAIN files /\ files[GitignorePath].readable
    THEN GitignorePatterns(FileLines(files[GitignorePath].bytes))
    ELSE << >>

\* one pattern of is_ignored against the path string
PatternMatches(pattern, file_str) ==
    IF EndsWith(pattern, <<"/">>)
    THEN LET dir == SubSeq(pattern, 1, Len(pattern) - 1)
         IN  StartsWith(file_str, dir) \/ InList(dir, Split(file_str, "/"))
    ELSE IF StartsWith(pattern, <<"*">>)
    THEN EndsWith(file_str, SubSeq(pattern, 2, Len(pattern)))
    ELSE Contains(file_str, pattern)

\* is_ignored: the first matching pattern decides
RECURSIVE is_ignored(_, _)
is_ignored(file_str, gitignore_patterns) ==
    IF gitignore_patterns = << >>
    THEN FALSE
    ELSE IF PatternMatches(Head(gitignore_patterns), file_str)
    THEN TRUE
    ELSE is_ignored(file_str, Tail(gitignore_patterns))

\* filtered_local_files
FilterLocal(local_files, gitignore_patterns) ==
    LET Kept(f) == ~is_ignored(f, gitignore_patterns)
    IN  SelectSeq(local_files, Kept)

\* ModifiedFiles without the fingerprint comparison
ModifiedFiles_NoHash(filtered_local_files, remote_files, files, clone) ==
    LET Common(f) == InList(f, remote_files)
    IN  SelectSeq(filtered_local_files, Common)

\* modified_files: in both lists, fingerprints differ
ModifiedFiles(filtered_local_files, remote_files, files, clone) ==
    LET Differs(f) == InList(f, remote_files)
                      /\ calculate_file_hash(files, f) # calculate_file_hash(clone, f)
    IN  SelectSeq(filtered_local_files, Differs)

\* NewFiles without the membership test against the remote list
NewFiles_NoRemoteTest(filtered_local_files, remote_files) == filtered_local_files

\* NewFiles as a loop that stops at the first file the remote also has
NewFiles_StopAtRemote(filtered_local_files, remote_files) ==
    LET hits == {i \in 1..Len(filtered_local_files) :
                     InList(filtered_local_files[i], remote_files)}
        stop == IF hits = {} THEN Len(filtered_local_files) + 1
                ELSE CHOOSE i \in hits : \A j \in hits : i <= j
    IN  SubSeq(filtered_local_files, 1, stop - 1)

\* new_files: local, not remote
NewFiles(filtered_local_files, remote_files) ==
    LET LocalOnly(f) == ~InList(f, remote_files)
    IN  SelectSeq(filtered_local_files, LocalOnly)

\* DeletedFiles written as a copy of the new_files comprehension
DeletedFiles_CopyOfNew(filtered_local_files, remote_files) ==
    LET LocalOnly(f) == ~InList(f, remote_files)
    IN  SelectSeq(filtered_local_files, LocalOnly)

\* deleted_files: remote, not in the filtered local list
DeletedFiles(filtered_local_files, remote_files) ==
    LET RemoteOnly(f) == ~InList(f, filtered_local_files)
    IN  SelectSeq(remote_files, RemoteOnly)

\* the warnings of logger "hash" during one comparison: the local files whose
\* local or cloned copy could not be read when the two were hashed
HashWarnings(walk, ls_ok, ls_lines, files, clone) ==
    LET remote_files == get_tracked_files_from_clone(ls_ok, ls_lines)
        filtered_local_files == FilterLocal(ScanLocal(walk), ReadGitignore(files))
        Failed(f) == InList(f, remote_files)
                     /\ (calculate_file_hash(files, f) = NoStr
                         \/ calculate_file_hash(clone, f) = NoStr)
    IN  SelectSeq(filtered_local_files, Failed)

\* compare_local_vs_remote(project_path, clone_path)
compare_local_vs_remote(walk, ls_ok, ls_lines, files, clone) ==
    LET remote_files == get_tracked_files_from_clone(ls_ok, ls_lines)
        local_files == ScanLocal(walk)
        filtered_local_files == FilterLocal(local_files, ReadGitignore(files))
    IN  [modified |-> ModifiedFiles(filtered_local_files, remote_files, files, clone),
         new |-> NewFiles(filtered_local_files, remote_files),
         deleted |-> DeletedFiles(filtered_local_files, remote_files)]

-----------------------------------------------------------------------------
(* SpecDiff: compare_local_vs_remote on bounded trees                      *)

Trees(paths, states, max) ==
    UNION {[S -> states] : S \in {T \in SUBSET paths : Cardinality(T) <= max}}

NoChanges == [modified |-> << >>, new |-> << >>, deleted |-> << >>]

\* a machine whose commands and keys play no part in what is modelled
Host0 == [commands |-> {}, keys |-> {}, login |-> TRUE]

\* a command line without --project, --message and --branch
NoFlags == [project |-> << >>, message |-> << >>, branch |-> << >>]

Hist0 ==
    [unknown |-> FALSE,    \* the classification ended with scenario "unknown"
     cancelled |-> FALSE,  \* the user declined a confirmation or cancelled at a prompt
     failed |-> FALSE,     \* a git command of a recovery or of the push failed for good
     pushes |-> 0,         \* git push commands (without --force) of the running push code
     rejected |-> FALSE,   \* the captured push was rejected with "fetch first"
     choice |-> "none",    \* the option chosen at "Choose an option (1/2/3)"
     pulled |-> FALSE,     \* the pull of option 1 succeeded
     confirmed |-> FALSE,  \* the user confirmed the force push
     forced |-> FALSE,     \* a git push --force was issued
     commits |-> 0,        \* git commit commands since the run started or last looked for commits
     add_failed |-> FALSE, \* a git add <path> of a staging loop failed
     pulls |-> 0,          \* git pull commands of the running push code
     retries |-> 0,        \* git push commands issued after the pull
     staged |-> FALSE,     \* a git add was issued since the run started or last looked for commits
     agreed |-> FALSE]     \* the user said yes to the confirmation of a recovery

Frame0 ==
    [custom_patterns |-> << >>,   \* main: the answer of prompt_gitignore_patterns
     scenario |-> "none",         \* recover_detached_repository: scenario
     answer |-> <<"None">>,       \* what the user typed at the URL prompt, None if not asked
     remote_url |-> <<"None">>,   \* detect_recovery_scenario: remote_url
     detected_url |-> <<"None">>, \* the URL detect_recovery_scenario returned
     temp_clone_path |-> 0,       \* the temporary clone of the running function
     ls_ok |-> TRUE,              \* whether git ls-files succeeded in the clone
     changes |-> NoChanges,       \* modified_files, new_files, deleted_files
     warned |-> << >>,            \* files the last comparison logged a hash warning for
     options |-> << >>,           \* main: project_path, commit_message, branch_name
     is_repo |-> "none",          \* what a direct call of is_git_repository returned
     file_str |-> << >>,          \* is_ignored: the path asked about
     gitignore_lines |-> << >>,   \* the lines of the .gitignore it is asked against
     ignored |-> "none",          \* what is_ignored returned
     pkg_manager |-> "none",      \* main: pkg_manager
     required_cmds |-> << >>,     \* ensure_prerequisites: the commands still to look at
     package |-> "none",          \* install_package: package
     pub_key_path |-> "none",     \* what ensure_ssh_key returned
     todo |-> << >>,              \* files the staging loop still has to add
     staged_files |-> << >>,      \* staged_files of the staging loop
     caller |-> "none",           \* who called initialize_repo
     current_branch |-> "none",   \* current_branch of the push code
     push_url |-> <<"None">>,     \* main: the URL asked before push_to_remote
     recovered |-> "none"]        \* what recover_detached_repository returned

InitDiff ==
    /\ pc = "compare"
    /\ \E ord \in Trees(OrdinaryPaths, LocalFileStates, MaxLocal),
          ign \in Trees({GitignorePath}, IgnoreFileStates, 1) :
           tree = ord @@ ign
    /\ gitDir \in {"absent", "dir"}
    /\ remote \in Trees(OrdinaryPaths, RemoteFileStates, MaxRemote)
    /\ head = FALSE
    /\ index = {}
    /\ committed = {}
    /\ branch = (IF gitDir = "dir" THEN "main" ELSE "none")
    /\ config_defaults = << >>
    /\ git_installed = TRUE
    /\ argv = NoFlags
    /\ host = Host0
    /\ tempDirs = {1}
    /\ made = <<"test">>
    /\ frame = [Frame0 EXCEPT !.temp_clone_path = 1]
    /\ events = [n |-> 0, l |-> << >>]
    /\ hist = Hist0
    /\ exit = "running"

\* a call of compare_local_vs_remote(project, clone): the walk order, the
\* success of git ls-files are the environment's
DiffCompare ==
    /\ pc = "compare"
    /\ \E walk \in Walks(tree, gitDir), ls_ok \in BOOLEAN :
           frame' = [frame EXCEPT
                        !.ls_ok = ls_ok,
                        !.changes = compare_local_vs_remote(walk, ls_ok, LsFiles(remote),
                                                            tree, remote),
                        !.warned = HashWarnings(walk, ls_ok, LsFiles(remote), tree, remote)]
    /\ pc' = "compared"
    /\ UNCHANGED <<repoVars, envVars, tmpVars, events, hist, exit>>

NextDiff == DiffCompare

SpecDiff == InitDiff /\ [][NextDiff]_vars

-----------------------------------------------------------------------------
(* SpecProbe: is_git_repository on bounded project folders                 *)

InitProbe ==
    /\ pc = "probe"
    /\ gitDir \in DotGitStates
    /\ tree \in (IF gitDir = "no_project" THEN {<< >>}
                 ELSE Trees(OrdinaryPaths, LocalFileStates, MaxLocal))
    /\ head = FALSE
    /\ index = {}
    /\ committed = {}
    /\ branch = "none"
    /\ remote = << >>
    /\ config_defaults = << >>
    /\ git_installed = TRUE
    /\ argv = NoFlags
    /\ host = Host0
    /\ tempDirs = {}
    /\ made = << >>
    /\ frame = Frame0
    /\ events = [n |-> 0, l |-> << >>]
    /\ hist = Hist0
    /\ exit = "running"

\* a call of is_git_repository(project)
ProbeRepository ==
    /\ pc = "probe"
    /\ frame' = [frame EXCEPT !.is_repo = IF is_git_repository(gitDir) THEN "True" ELSE "False"]
    /\ pc' = "probed"
    /\ UNCHANGED <<repoVars, envVars, tmpVars, events, hist, exit>>

NextProbe == ProbeRepository

SpecProbe == InitProbe /\ [][NextProbe]_vars

-----------------------------------------------------------------------------
(* SpecIgnore: is_ignored on bounded paths and .gitignore files            *)

\* local paths: under build/, a file named build in a folder, a folder whose
\* name ends with build, a log file, and two plain files
NestedBuild == <<"s", "/", "b", "u", "i", "l", "d">>
XBuildFile == <<"x", "b", "u", "i", "l", "d", "/", "y">>
TopLog == <<"a", ".", "l", "o", "g">>
IgnoreProbePaths == {BuildLog, NestedBuild, XBuildFile, TopLog, README, ExtraTxt}

\* lines a .gitignore may hold: a directory pattern (also with blanks around
\* it), a wildcard pattern, a plain pattern, a comment, an empty line
IgnoreLines ==
    {<<"b", "u", "i", "l", "d", "/">>, <<" ", "b", "u", "i", "l", "d", "/", " ">>,
     <<"*", ".", "l", "o", "g">>, <<"x", "t", "r", "a">>,
     <<"#", "R", "E", "A", "D">>, NoStr}

\* the longest .gitignore, in lines
MaxIgnoreLines == 2

IgnoreFiles == UNION {[1..n -> IgnoreLines] : n \in 0..MaxIgnoreLines}

InitIgnore ==
    /\ pc = "ignore"
    /\ \E path \in IgnoreProbePaths, lines \in IgnoreFiles :
           frame = [Frame0 EXCEPT !.file_str = path, !.gitignore_lines = lines]
    /\ tree = << >>
    /\ gitDir = "absent"
    /\ head = FALSE
    /\ index = {}
    /\ committed = {}
    /\ branch = "none"
    /\ remote = << >>
    /\ config_defaults = << >>
    /\ git_installed = TRUE
    /\ argv = NoFlags
    /\ host = Host0
    /\ tempDirs = {}
    /\ made = << >>
    /\ events = [n |-> 0, l |-> << >>]
    /\ hist = Hist0
    /\ exit = "running"

\* is_ignored(file_path) against the patterns read from the lines
IgnoreProbe ==
    /\ pc = "ignore"
    /\ frame' = [frame EXCEPT !.ignored =
                     IF is_ignored(frame.file_str, GitignorePatterns(frame.gitignore_lines))
                     THEN "True" ELSE "False"]
    /\ pc' = "ignored"
    /\ UNCHANGED <<repoVars, envVars, tmpVars, events, hist, exit>>

NextIgnore == IgnoreProbe

SpecIgnore == InitIgnore /\ [][NextIgnore]_vars

-----------------------------------------------------------------------------
(* Claims about the Diff Engine (checked under SpecDiff)                   *)

\* L: the regular files of the project outside .git that no pattern of the
\* project's .gitignore matches
LocalSet ==
    {p \in DOMAIN tree :
        ~\E i \in 1..Len(ReadGitignore(tree)) : PatternMatches(ReadGitignore(tree)[i], p)}

\* R: the paths git ls-files reported for the clone (none when it failed)
RemoteSet == IF frame.ls_ok THEN DOMAIN remote ELSE {}

\* C9: compare_local_vs_remote returns modified = the paths of L and R whose
\* local and remote fingerprints differ, new = L \ R and deleted = R \ L.
C9_Partition ==
    pc = "compared" =>
        /\ Range(frame.changes.modified) =
               {p \in LocalSet \cap RemoteSet :
                   calculate_file_hash(tree, p) # calculate_file_hash(remote, p)}
        /\ Range(frame.changes.new) = LocalSet \ RemoteSet
        /\ Range(frame.changes.deleted) = RemoteSet \ LocalSet

\* the example of the spec: README.md differs, extra.txt is on the remote only
C9_Witness ==
    /\ pc = "compared"
    /\ frame.ls_ok
    /\ tree = (README :> File("C2", TRUE))
    /\ remote = (README :> File("C1", TRUE)) @@ (ExtraTxt :> File("C1", TRUE))
    /\ frame.changes = [modified |-> <<README>>, new |-> << >>, deleted |-> <<ExtraTxt>>]

\* C10: modified, new and deleted are pairwise disjoint.
C10_Disjoint ==
    pc = "compared" =>
        /\ Range(frame.changes.modified) \cap Range(frame.changes.new) = {}
        /\ Range(frame.changes.modified) \cap Range(frame.changes.deleted) = {}
        /\ Range(frame.changes.new) \cap Range(frame.changes.deleted) = {}

\* a comparison in which all three lists are non-empty
C10_Witness ==
    /\ pc = "compared"
    /\ frame.changes.modified # << >>
    /\ frame.changes.new # << >>
    /\ frame.changes.deleted # << >>

\* every path one of the three lists names
Listed ==
    Range(frame.changes.modified) \cup Range(frame.changes.new)
        \cup Range(frame.changes.deleted)

\* C11: a path that is present in the project and in the clone with the same
\* bytes is in none of modified, new, deleted -- also when a copy cannot be
\* read for hashing and when the local copy matches an ignore pattern.
\* (Stated for the comparisons in which git ls-files listed the clone.)
C11_IdenticalUnlisted ==
    pc = "compared" /\ frame.ls_ok =>
        \A p \in DOMAIN tree \cap DOMAIN remote :
            tree[p].bytes = remote[p].bytes => p \notin Listed

\* how often a list names a path
Count(list, x) == Cardinality({i \in 1..Len(list) : list[i] = x})

\* C12: every non-ignored local file that the remote's tracked list lacks is
\* in new exactly once, every remote-tracked file with no local file at its
\* path is in deleted exactly once, and no list names a path twice.
C12_ExactlyOnce ==
    pc = "compared" =>
        /\ \A p \in LocalSet \ RemoteSet : Count(frame.changes.new, p) = 1
        /\ \A p \in RemoteSet \ DOMAIN tree : Count(frame.changes.deleted, p) = 1
        /\ \A p \in Listed :
               /\ Count(frame.changes.modified, p) <= 1
               /\ Count(frame.changes.new, p) <= 1
               /\ Count(frame.changes.deleted, p) <= 1

\* a comparison with two new files and two files on the remote only, next to
\* an ignored local file
C12_Witness ==
    /\ pc = "compared"
    /\ frame.ls_ok
    /\ Cardinality(LocalSet \ RemoteSet) >= 1
    /\ Cardinality(RemoteSet \ DOMAIN tree) = 2
    /\ DOMAIN tree \ LocalSet # {}
    /\ Len(frame.changes.new) = Cardinality(LocalSet \ RemoteSet)
    /\ Len(frame.changes.deleted) = 2

\* C13: every path in deleted is on the remote only: the project tree holds
\* no file at that path.
C13_DeletedAbsentLocally ==
    pc = "compared" => Range(frame.changes.deleted) \cap DOMAIN tree = {}

\* C14: the fingerprint of a readable file is a function of its bytes alone
\* (so two calls on an unchanged file agree), it is the SHA-256 digest written
\* as 64 hexadecimal characters, and two readable files get the same
\* fingerprint only when their bytes are the same.
C14_Fingerprint ==
    \A p \in DOMAIN tree, q \in DOMAIN remote :
        LET h == calculate_file_hash(tree, p)
            g == calculate_file_hash(remote, q)
        IN  /\ tree[p].readable =>
                   /\ h = Hexdigest(Sha256(Content(tree[p].bytes)))
                   /\ Len(h) = 64
                   /\ \A i \in 1..Len(h) : InList(h[i], HexDigits)
            /\ tree[p].readable /\ remote[q].readable =>
                   (h = g <=> Content(tree[p].bytes) = Content(remote[q].bytes))

\* a comparison of two readable copies that share their first chunk and
\* differ after it, and of two copies with the same bytes
C14_Witness ==
    /\ pc = "compared"
    /\ README \in DOMAIN tree \cap DOMAIN remote
    /\ ExtraTxt \in DOMAIN tree \cap DOMAIN remote
    /\ tree[README] = File("C2", TRUE)
    /\ tree[ExtraTxt] = File("C1", TRUE)
    /\ calculate_file_hash(tree, README) # calculate_file_hash(remote, README)
    /\ calculate_file_hash(tree, ExtraTxt) = calculate_file_hash(remote, ExtraTxt)
    /\ SubSeq(Content("C1"), 1, ChunkSize) = SubSeq(Content("C2"), 1, ChunkSize)

\* C15: a file that cannot be read does not stop the comparison: its
\* fingerprint is the empty string, a warning is logged for it when it is
\* hashed, and the result still classifies every other path as it would
\* without the unreadable file.
C15_UnreadableTolerated ==
    pc = "compared" =>
        \A u \in DOMAIN tree :
            ~tree[u].readable =>
                /\ calculate_file_hash(tree, u) = NoStr
                /\ u \in LocalSet \cap RemoteSet <=> InList(u, frame.warned)
                /\ \A p \in (DOMAIN tree \cup DOMAIN remote) \ {u} :
                       /\ InList(p, frame.changes.modified) <=>
                              /\ p \in LocalSet \cap RemoteSet
                              /\ ~tree[p].readable \/ tree[p].bytes # remote[p].bytes
                       /\ InList(p, frame.changes.new) <=> p \in LocalSet \ RemoteSet
                       /\ InList(p, frame.changes.deleted) <=> p \in RemoteSet \ LocalSet

\* an unreadable local file that the remote tracks, next to a new file and a
\* file on the remote only
C15_Witness ==
    /\ pc = "compared"
    /\ frame.ls_ok
    /\ \E u \in LocalSet \cap RemoteSet :
           /\ ~tree[u].readable
           /\ frame.warned = <<u>>
           /\ frame.changes.modified = <<u>>
    /\ frame.changes.new # << >>
    /\ frame.changes.deleted # << >>

-----------------------------------------------------------------------------
(* One run of main(): state, helpers and start                            *)

Ev(e, a, r) == [e |-> e, a |-> a, r |-> r]

\* Python's None where a string is expected
NoneStr == <<"None">>

\* a test that takes only None for "no value"
Falsy_OnlyNone(s) == s = NoneStr

\* `not s' for a string or None
Falsy(s) == s \in {NoStr, NoneStr}

\* dict.get(key, default)
ConfigGet(cfg, key, default) == IF key \in DOMAIN cfg THEN cfg[key] ELSE default

UrlTyped == <<"u">>
UrlConfig == <<"c">>

\* lines a user can type at the URL prompts
UrlLines == {NoStr, <<" ">>, <<" ", "u", " ">>}

MessageConfig == <<"w", "i", "p">>

InitialCommit ==
    <<"I", "n", "i", "t", "i", "a", "l", " ", "c", "o", "m", "m", "i", "t">>

\* parse_args: the value given for a flag, else the default of add_argument
parse_args(av) ==
    [project |-> IF av.project = << >> THEN "." ELSE av.project[1],
     message |-> IF av.message = << >> THEN InitialCommit ELSE av.message[1],
     branch |-> IF av.branch = << >> THEN "main" ELSE av.branch[1]]

\* main: project_path, before expanduser().resolve()
project_path ==
    IF parse_args(argv).project # "" THEN parse_args(argv).project
    ELSE ConfigGet(config_defaults, "project", ".")

\* main: commit_message = args.message or config_defaults.get("message", ...)
commit_message ==
    IF parse_args(argv).message # NoStr THEN parse_args(argv).message
    ELSE ConfigGet(config_defaults, "message", InitialCommit)

\* main: branch_name = args.branch or config_defaults.get("branch", "main")
branch_name ==
    IF parse_args(argv).branch # "" THEN parse_args(argv).branch
    ELSE ConfigGet(config_defaults, "branch", "main")

\* recover_local_only_repository: commit_message, from the config alone
recover_local_commit_message == ConfigGet(config_defaults, "message", InitialCommit)

-----------------------------------------------------------------------------
(* SpecOptions: how main settles project path, commit message and branch   *)

MessageTyped == <<"f", "i", "x">>

\* command lines: each flag absent, given with a value, or given empty
CommandLines ==
    [project : {<< >>, <<"cli_dir">>, <<"">>},
     message : {<< >>, <<MessageTyped>>, <<NoStr>>},
     branch : {<< >>, <<"cli_branch">>, <<"">>}]

\* config files: each of the three keys absent or present
OptionConfigs ==
    {p @@ m @@ b : p \in {<< >>, [project |-> "cfg_dir"]},
                   m \in {<< >>, [message |-> MessageConfig]},
                   b \in {<< >>, [branch |-> "cfg_branch"]}}

InitOptions ==
    /\ pc = "options"
    /\ argv \in CommandLines
    /\ host = Host0
    /\ config_defaults \in OptionConfigs
    /\ tree = << >>
    /\ gitDir = "absent"
    /\ head = FALSE
    /\ index = {}
    /\ committed = {}
    /\ branch = "none"
    /\ remote = << >>
    /\ git_installed = TRUE
    /\ tempDirs = {}
    /\ made = << >>
    /\ frame = Frame0
    /\ events = [n |-> 0, l |-> << >>]
    /\ hist = Hist0
    /\ exit = "running"

\* main, from parse_args() to the configuration summary, and the message
\* recover_local_only_repository would commit with
main_options ==
    /\ pc = "options"
    /\ frame' = [frame EXCEPT !.options =
                     [project_path |-> project_path,
                      commit_message |-> commit_message,
                      branch_name |-> branch_name,
                      recover_local_commit_message |-> recover_local_commit_message]]
    /\ pc' = "resolved"
    /\ UNCHANGED <<repoVars, envVars, tmpVars, events, hist, exit>>

NextOptions == main_options

SpecOptions == InitOptions /\ [][NextOptions]_vars

\* config files: no key, an empty remote_url, a URL, or a commit message
Configs ==
    {<< >>, [remote_url |-> NoStr], [remote_url |-> UrlConfig], [message |-> MessageConfig]}

\* project trees of a run: README.md in one of two versions or absent, with or
\* without build/a.log, with or without a .gitignore
ProjectTrees ==
    {r @@ b @@ g : r \in Trees({README}, {File("C1", TRUE), File("C2", TRUE)}, 1),
                   b \in Trees({BuildLog}, {File("C1", TRUE)}, 1),
                   g \in Trees({GitignorePath}, {File("ig_log", TRUE)}, 1)}

\* what the remote tracks when it is cloned
RemoteTrees == Trees({README, ExtraTxt}, RemoteFileStates, 2)

\* what git itself ignores (git check-ignore), for the paths and .gitignore
\* files of the model: *.log and build/ match build/a.log, .gitignore matches
\* itself, nothing matches README.md or extra.txt
GitIgnores(files, p) ==
    /\ GitignorePath \in DOMAIN files
    /\ files[GitignorePath].readable
    /\ LET b == files[GitignorePath].bytes
       IN  \/ p = BuildLog /\ b \in {"ig_log", "ig_build", "ig_default", "ig_default_custom"}
           \/ p = GitignorePath /\ b \in {"ig_default", "ig_default_custom"}

\* the working files git would stage with `git add .'
Stageable(files, done) == {p \in DOMAIN files : ~GitIgnores(files, p) /\ p \notin done}

Init ==
    /\ pc = "main"
    /\ tree \in ProjectTrees
    /\ gitDir \in {"absent", "dir"}
    /\ head \in (IF gitDir = "dir" THEN BOOLEAN ELSE {FALSE})
    /\ index = {}
    /\ committed = (IF head THEN Stageable(tree, {}) ELSE {})
    /\ branch = (IF gitDir = "dir" THEN "main" ELSE "none")
    /\ remote = << >>
    /\ config_defaults \in Configs
    /\ git_installed \in BOOLEAN
    /\ argv = NoFlags
    /\ host = Host0
    /\ tempDirs = {}
    /\ made = << >>
    /\ frame = Frame0
    /\ events = [n |-> 0, l |-> << >>]
    /\ hist = Hist0
    /\ exit = "running"

Declines ==
    {"confirm_recover_local", "confirm_recover_remote", "confirm_continue", "confirm_force"}

HardFailures == {"init", "remote_set_url", "add_all"}

\* the history after one more event
Note(h, ev) ==
    CASE ev.e = "rev_parse" ->
             [h EXCEPT !.pushes = 0, !.rejected = FALSE, !.choice = "none",
                       !.pulled = FALSE, !.confirmed = FALSE, !.forced = FALSE,
                       !.commits = 0, !.add_failed = FALSE, !.pulls = 0, !.retries = 0,
                       !.staged = FALSE, !.agreed = FALSE]
      [] ev.e = "add" ->
             [h EXCEPT !.add_failed = (h.add_failed \/ ev.r = "fail"), !.staged = TRUE]
      [] ev.e = "commit" ->
             [h EXCEPT !.commits = h.commits + 1,
                       !.failed = (h.failed \/ ev.r = "fail")]
      [] ev.e = "confirm_local_only" ->
             [h EXCEPT !.unknown = (ev.r = "unknown"),
                       !.cancelled = (h.cancelled \/ ev.r = "unknown")]
      [] ev.e \in Declines ->
             [h EXCEPT !.cancelled = (h.cancelled \/ ev.r = "no"),
                       !.confirmed = (ev.e = "confirm_force" /\ ev.r = "yes"),
                       !.agreed = (h.agreed \/ (ev.r = "yes" /\ ev.e \in
                                       {"confirm_recover_local", "confirm_recover_remote"}))]
      [] ev.e = "choice" ->
             [h EXCEPT !.choice = IF ev.r = <<"1">> THEN "1"
                                  ELSE IF ev.r = <<"2">> THEN "2" ELSE "cancel",
                       !.cancelled = (h.cancelled \/ ev.r \notin {<<"1">>, <<"2">>})]
      [] ev.e = "push" ->
             [h EXCEPT !.pushes = h.pushes + 1,
                       !.retries = IF h.pulls > 0 THEN h.retries + 1 ELSE h.retries,
                       !.rejected = (h.rejected \/ (ev.a = <<"rerun">> /\ ev.r = "fetch_first")),
                       !.failed = (h.failed \/ (ev.a = <<"rerun">> /\ ev.r # "fetch_first")
                                            \/ (ev.a = <<"retry">> /\ ev.r # "ok"))]
      [] ev.e = "pull" ->
             [h EXCEPT !.pulled = (ev.r = "ok"), !.pulls = h.pulls + 1,
                       !.failed = (h.failed \/ ev.r # "ok")]
      [] ev.e = "push_force" ->
             [h EXCEPT !.forced = TRUE, !.failed = (h.failed \/ ev.r # "ok")]
      [] ev.e \in HardFailures ->
             [h EXCEPT !.failed = (h.failed \/ ev.r = "fail"),
                       !.staged = (h.staged \/ ev.e = "add_all")]
      [] OTHER -> h

RECURSIVE Notes(_, _)
Notes(h, evs) == IF evs = << >> THEN h ELSE Notes(Note(h, Head(evs)), Tail(evs))

\* a step issues commands, prompts and returns
Emit(evs) ==
    /\ events' = [n |-> 1 - events.n, l |-> evs]
    /\ hist' = Notes(hist, evs)

\* the process ends with the given status
Exit(status, evs) ==
    /\ pc' = "done"
    /\ exit' = status
    /\ Emit(evs)

\* recover_detached_repository returns to main: True ends the run with
\* "Onboarding complete!", False lets main continue with the normal flow
RecoveryReturns(val, evs, fr) ==
    /\ frame' = [Frame0 EXCEPT !.recovered = IF val THEN "True" ELSE "False"]
    /\ Emit(evs \o <<Ev("recover_detached_return", NoStr, IF val THEN "True" ELSE "False")>>)
    /\ IF val THEN pc' = "done" /\ exit' = "0"
              ELSE pc' = "revparse" /\ exit' = exit

\* an existing .gitignore with non-whitespace content
HasContent(files) ==
    /\ GitignorePath \in DOMAIN files
    /\ files[GitignorePath].readable
    /\ \E i \in 1..Len(FileLines(files[GitignorePath].bytes)) :
           Strip(FileLines(files[GitignorePath].bytes)[i]) # NoStr

\* prompt_gitignore_patterns
prompt_gitignore_patterns ==
    /\ pc = "main"
    /\ IF HasContent(tree)
       THEN frame' = [frame EXCEPT !.custom_patterns = << >>] /\ Emit(<< >>)
       ELSE \E typed \in YesNoLines, pats \in {<< >>, <<CustomPattern>>} :
                /\ frame' = [frame EXCEPT !.custom_patterns =
                                 IF ConfirmAsk(typed, FALSE) THEN pats ELSE << >>]
                /\ Emit(<<Ev("confirm_gitignore", NoStr,
                                 IF ConfirmAsk(typed, FALSE) THEN "yes" ELSE "no")>>)
    /\ pc' = "create_gitignore"
    /\ UNCHANGED <<repoVars, envVars, tmpVars, exit>>

\* create_default_gitignore, then main's test for a detached repository
create_default_gitignore ==
    /\ pc = "create_gitignore"
    /\ IF HasContent(tree)
       THEN UNCHANGED tree
       ELSE \E written \in BOOLEAN :
                tree' = IF written
                        THEN (GitignorePath :>
                                 File(IF frame.custom_patterns # << >>
                                      THEN "ig_default_custom" ELSE "ig_default", TRUE))
                             @@ tree
                        ELSE tree
    /\ pc' = IF is_git_repository(gitDir) THEN "revparse" ELSE "recover_detached"
    /\ Emit(<< >>)
    /\ UNCHANGED <<repoVars, remote, config_defaults, git_installed, argv, host, tmpVars, frame, exit>>

-----------------------------------------------------------------------------
(* State Classifier: recover_detached_repository, detect_recovery_scenario *)

\* recover_detached_repository, up to the call of detect_recovery_scenario
recover_detached_repository ==
    /\ pc = "recover_detached"
    /\ IF is_git_repository(gitDir)
       THEN RecoveryReturns(FALSE, << >>, frame)
       ELSE pc' = "detect_url" /\ Emit(<< >>) /\ UNCHANGED <<frame, exit>>
    /\ UNCHANGED <<repoVars, envVars, tmpVars>>

\* detect_recovery_scenario: the URL of the config, else the stripped answer
\* of the prompt; no URL means local-only without any verification
detect_resolve_url ==
    /\ pc = "detect_url"
    /\ \E typed \in UrlLines :
           LET configured == ConfigGet(config_defaults, "remote_url", NoneStr)
               remote_url == IF Falsy(configured)
                             THEN Strip(PromptAsk(typed, NoStr))
                             ELSE configured
               evs == IF Falsy(configured) THEN <<Ev("ask_url", typed, "")>> ELSE << >>
           IN  /\ Emit(evs)
               /\ IF Falsy(remote_url)
                  THEN /\ frame' = [frame EXCEPT !.remote_url = remote_url,
                                                 !.answer = IF Falsy(configured)
                                                            THEN typed ELSE NoneStr,
                                                 !.scenario = "local_only",
                                                 !.detected_url = NoneStr]
                       /\ pc' = "dispatch"
                  ELSE /\ frame' = [frame EXCEPT !.remote_url = remote_url,
                                                 !.answer = IF Falsy(configured)
                                                            THEN typed ELSE NoneStr]
                       /\ pc' = "detect_verify"
    /\ UNCHANGED <<repoVars, envVars, tmpVars, exit>>

\* how run_git_command can end: git returned zero, git returned non-zero
\* (SystemExit), or subprocess.run raised because there is no git to start
GitOutcomes(installed) == IF installed THEN {"ok", "fail"} ELSE {"raised"}

\* verify_remote_repository as detect_recovery_scenario calls it: mkdtemp and
\* a shallow clone; a failed clone removes the directory and raises SystemExit,
\* which detect_recovery_scenario catches; without git the FileNotFoundError
\* of subprocess.run passes every handler up to main
detect_verify ==
    /\ pc = "detect_verify"
    /\ \E out \in GitOutcomes(git_installed) :
           LET ev == Ev("clone", frame.remote_url, out)
           IN  /\ made' = Append(made, "detect_recovery_scenario")
               /\ CASE out = "ok" ->
                        /\ tempDirs' = tempDirs \cup {Len(made) + 1}
                        /\ frame' = [frame EXCEPT !.temp_clone_path = Len(made) + 1,
                                                  !.scenario = "remote_exists",
                                                  !.detected_url = frame.remote_url]
                        /\ Emit(<<ev>>)
                        /\ pc' = "detect_finally"
                        /\ exit' = exit
                   [] out = "fail" ->
                        /\ tempDirs' = tempDirs
                        /\ frame' = frame
                        /\ Emit(<<ev>>)
                        /\ pc' = "detect_ask"
                        /\ exit' = exit
                   [] OTHER ->
                        /\ tempDirs' = tempDirs \cup {Len(made) + 1}
                        /\ frame' = frame
                        /\ Exit("uncaught", <<ev>>)
    /\ UNCHANGED <<repoVars, envVars>>

\* the scenario after a failed verification, by the answer to
\* "Proceed as local-only repository?" (default yes)
AfterVerificationFailure(typed) ==
    IF ConfirmAsk(typed, TRUE) THEN "local_only" ELSE "unknown"

\* detect_recovery_scenario after a failed verification
detect_ask ==
    /\ pc = "detect_ask"
    /\ \E typed \in YesNoLines :
           /\ frame' = [frame EXCEPT !.scenario = AfterVerificationFailure(typed),
                                     !.detected_url = NoneStr]
           /\ Emit(<<Ev("confirm_local_only", typed,
                                          AfterVerificationFailure(typed))>>)
    /\ pc' = "detect_finally"
    /\ UNCHANGED <<repoVars, envVars, tmpVars, exit>>

\* the finally block of detect_recovery_scenario: the temporary clone is removed
detect_finally ==
    /\ pc = "detect_finally"
    /\ tempDirs' = tempDirs \ {frame.temp_clone_path}
    /\ frame' = [frame EXCEPT !.temp_clone_path = 0]
    /\ pc' = "dispatch"
    /\ Emit(<< >>)
    /\ UNCHANGED <<repoVars, envVars, made, exit>>

\* recover_detached_repository after the scenario is known
recover_detached_dispatch ==
    /\ pc = "dispatch"
    /\ CASE frame.scenario = "unknown" ->
                RecoveryReturns(FALSE, << >>, frame)
         [] frame.scenario = "local_only" ->
                pc' = "rl_scan" /\ Emit(<< >>) /\ UNCHANGED <<frame, exit>>
         [] OTHER ->
                pc' = "rr_verify" /\ Emit(<< >>) /\ UNCHANGED <<frame, exit>>
    /\ UNCHANGED <<repoVars, envVars, tmpVars>>

-----------------------------------------------------------------------------
(* initialize_repo, called by both recoveries and by main                  *)

\* the local-only recovery going from initialize_repo straight to its commit
AfterInit_SkipsStaging(caller) ==
    CASE caller = "rl" -> "rl_commit"
      [] caller = "rr0" -> "rr0_remote"
      [] caller = "rr" -> "rr_remote"
      [] OTHER -> "sc_status"

\* where the caller of initialize_repo continues after it returned
AfterInit(caller) ==
    CASE caller = "rl" -> "rl_add"
      [] caller = "rr0" -> "rr0_remote"
      [] caller = "rr" -> "rr_remote"
      [] OTHER -> "sc_status"

\* a failed git init that lets the caller go on
InitFailed_Continues(evs) ==
    /\ pc' = AfterInit(frame.caller)
    /\ Emit(evs)
    /\ UNCHANGED <<frame, exit>>

\* initialize_repo raised SystemExit: the recoveries catch it and return
\* False, main lets it end the process
InitFailed(evs) ==
    IF frame.caller = "main"
    THEN Exit("1", evs) /\ UNCHANGED frame
    ELSE RecoveryReturns(FALSE,
                         evs \o <<Ev(IF frame.caller = "rl" THEN "rl_return" ELSE "rr_return",
                                     NoStr, "False")>>,
                         frame)

\* initialize_repo: nothing to do when .git exists, else git init
initialize_repo ==
    /\ pc = "init_repo"
    /\ IF gitDir # "absent"
       THEN /\ pc' = AfterInit(frame.caller)
            /\ Emit(<< >>)
            /\ UNCHANGED <<repoVars, frame, exit>>
       ELSE \E out \in GitOutcomes(git_installed) :
                CASE out = "ok" ->
                         /\ gitDir' = "dir"
                         /\ branch' = "master"
                         /\ Emit(<<Ev("init", NoStr, "ok")>>)
                         /\ pc' = "init_rename"
                         /\ UNCHANGED <<head, index, committed, frame, exit>>
                  [] out = "fail" ->
                         /\ InitFailed(<<Ev("init", NoStr, "fail")>>)
                         /\ UNCHANGED repoVars
                  [] OTHER ->
                         /\ Exit("uncaught", <<Ev("init", NoStr, "raised")>>)
                         /\ UNCHANGED <<repoVars, frame>>
    /\ UNCHANGED <<envVars, tmpVars>>

\* initialize_repo: git branch -M main; a failure keeps the default branch
initialize_repo_rename ==
    /\ pc = "init_rename"
    /\ \E ok \in BOOLEAN :
           /\ branch' = IF ok THEN "main" ELSE branch
           /\ Emit(<<Ev("branch_M", NoStr, IF ok THEN "ok" ELSE "fail")>>)
    /\ pc' = AfterInit(frame.caller)
    /\ UNCHANGED <<gitDir, head, index, committed, envVars, tmpVars, frame, exit>>

-----------------------------------------------------------------------------
(* recover_local_only_repository                                           *)

\* the last component of a path (Path.name)
PathName(p) == Split(p, "/")[Len(Split(p, "/"))]

\* a scan that keeps files named .gitignore
ScanLocalOnly_WithGitignore(walk) ==
    LET Keep(e) == e.is_file /\ ~InList(DotGit, Split(e.path, "/"))
        kept == SelectSeq(walk, Keep)
    IN  [i \in 1..Len(kept) |-> kept[i].path]

\* the scan of recover_local_only_repository: regular files with no ".git"
\* part that are not named .gitignore
ScanLocalOnly(walk) ==
    LET Keep(e) == /\ e.is_file
                   /\ ~InList(DotGit, Split(e.path, "/"))
                   /\ PathName(e.path) # GitignorePath
        kept == SelectSeq(walk, Keep)
    IN  [i \in 1..Len(kept) |-> kept[i].path]

\* outcomes of `git add <path>': git refuses a path it ignores
AddOutcomes(files, p) == IF GitIgnores(files, p) THEN {FALSE} ELSE BOOLEAN

\* outcomes of `git commit': git refuses to commit when nothing is staged
CommitOutcomes(idx) == IF idx = {} THEN {FALSE} ELSE BOOLEAN

recover_local_scan ==
    /\ pc = "rl_scan"
    /\ \E walk \in Walks(tree, gitDir) :
           IF ScanLocalOnly(walk) = << >>
           THEN RecoveryReturns(TRUE, <<Ev("rl_return", NoStr, "True")>>, frame)
           ELSE /\ frame' = [frame EXCEPT !.todo = ScanLocalOnly(walk),
                                          !.staged_files = << >>]
                /\ pc' = "rl_confirm"
                /\ Emit(<< >>)
                /\ exit' = exit
    /\ UNCHANGED <<repoVars, envVars, tmpVars>>

\* "Initialize git repository and create initial commit?" (default yes)
recover_local_confirm ==
    /\ pc = "rl_confirm"
    /\ \E typed \in YesNoLines :
           IF ConfirmAsk(typed, TRUE)
           THEN /\ frame' = [frame EXCEPT !.caller = "rl"]
                /\ Emit(<<Ev("confirm_recover_local", typed, "yes")>>)
                /\ pc' = "init_repo"
                /\ exit' = exit
           ELSE RecoveryReturns(FALSE, <<Ev("confirm_recover_local", typed, "no"),
                                         Ev("rl_return", NoStr, "False")>>, frame)
    /\ UNCHANGED <<repoVars, envVars, tmpVars>>

\* one round of the staging loop: git add <file>; after the last file the
\* function gives up when nothing was staged
recover_local_add ==
    /\ pc = "rl_add"
    /\ frame.todo # << >>
    /\ \E ok \in AddOutcomes(tree, Head(frame.todo)) :
           LET f == Head(frame.todo)
               staged == IF ok THEN Append(frame.staged_files, f) ELSE frame.staged_files
               fr == [frame EXCEPT !.todo = Tail(frame.todo), !.staged_files = staged]
               ev == Ev("add", f, IF ok THEN "ok" ELSE "fail")
           IN  /\ index' = IF ok THEN index \cup ({f} \ committed) ELSE index
               /\ IF Tail(frame.todo) = << >> /\ staged = << >>
                  THEN RecoveryReturns(FALSE, <<ev, Ev("rl_return", NoStr, "False")>>, fr)
                  ELSE /\ frame' = fr
                       /\ Emit(<<ev>>)
                       /\ pc' = IF Tail(frame.todo) = << >> THEN "rl_commit" ELSE "rl_add"
                       /\ exit' = exit
    /\ UNCHANGED <<gitDir, head, committed, branch, envVars, tmpVars>>

\* git commit -m <message of the config, else "Initial commit">
recover_local_commit ==
    /\ pc = "rl_commit"
    /\ \E ok \in CommitOutcomes(index) :
           LET ev == Ev("commit", recover_local_commit_message, IF ok THEN "ok" ELSE "fail")
           IN  /\ head' = (head \/ ok)
               /\ committed' = IF ok THEN committed \cup index ELSE committed
               /\ index' = IF ok THEN {} ELSE index
               /\ RecoveryReturns(ok, <<ev, Ev("rl_return", NoStr,
                                                IF ok THEN "True" ELSE "False")>>, frame)
    /\ UNCHANGED <<gitDir, branch, envVars, tmpVars>>

-----------------------------------------------------------------------------
(* Push outcomes                                                           *)

\* run_git_command returns when git ended with status zero and raises
\* SystemExit(1) otherwise
run_git_command(out) == out = "ok"

\* how git pull origin <branch> --allow-unrelated-histories can end
PullOutcomes == {"ok", "fail"}

AllowUnrelated ==
    <<"-", "-", "a", "l", "l", "o", "w", "-", "u", "n", "r", "e", "l", "a", "t", "e", "d", "-",
      "h", "i", "s", "t", "o", "r", "i", "e", "s">>

\* a pull whose failure is swallowed before the push
PullThenPush_PullUnchecked(out) == TRUE

\* option 1: pull and push share one try block, so the push is reached only
\* when run_git_command returned from the pull
PullThenPush(out) == run_git_command(out)

\* how a git push can end: accepted, rejected because the remote has work the
\* local repository lacks (fetch first), rejected because the local branch is
\* behind (non-fast-forward), or failed for another reason (auth, network)
PushOutcomes == {"ok", "fetch_first", "non_ff", "other"}

\* the phrases of git's stderr the code looks for
Stderr(out) ==
    CASE out = "fetch_first" -> <<"rejected", "fetch first">>
      [] out = "non_ff" -> <<"rejected", "non-fast-forward">>
      [] OTHER -> << >>

\* a rejection test that looks for "rejected" alone
IsRejection_AnyRejected(stderr) == InList("rejected", stderr)

\* the test of the push code: "rejected" in stderr and "fetch first" in stderr
IsRejection(stderr) == InList("rejected", stderr) /\ InList("fetch first", stderr)

\* option 1 as a new attempt of the whole push
AfterChoice_StartsOver(choice, pull, force_confirm, first_push) ==
    IF choice = <<"1">> THEN first_push ELSE force_confirm

\* where the push code goes on after option 1 or 2: to its pull or to the
\* confirmation of the force push, never back to its first push
AfterChoice(choice, pull, force_confirm, first_push) ==
    IF choice = <<"1">> THEN pull ELSE force_confirm

\* lines a user can type at "Choose an option (1/2/3)"
ChoiceLines == {NoStr, <<"1">>, <<" ", "2">>, <<"3">>, <<"x">>}

\* an answer that is taken as option 1 unless it is option 2
Choice_ElseOne(typed) ==
    IF Strip(PromptAsk(typed, <<"1">>)) = <<"2">> THEN <<"2">> ELSE <<"1">>

\* the stripped answer, "1" when the line is empty
Choice(typed) == Strip(PromptAsk(typed, <<"1">>))

\* remote add origin <url>, and remote set-url origin <url> when that fails
RemoteConfigOutcomes == {"added", "set", "fail"}

RemoteConfigEvents(url, out) ==
    IF out = "added"
    THEN <<Ev("remote_add", url, "ok")>>
    ELSE <<Ev("remote_add", url, "fail"), Ev("remote_set_url", url,
                                             IF out = "set" THEN "ok" ELSE "fail")>>

-----------------------------------------------------------------------------
(* recover_remote_exists_repository                                        *)

\* the function returns; only the return at its end removes the clone first
RemoteRecoveryReturns(val, cleanup, evs, fr) ==
    /\ tempDirs' = IF cleanup THEN tempDirs \ {fr.temp_clone_path} ELSE tempDirs
    /\ RecoveryReturns(val, evs \o <<Ev("rr_return", NoStr, IF val THEN "True" ELSE "False")>>,
                       fr)

\* verify_remote_repository as recover_remote_exists_repository calls it
recover_remote_verify ==
    /\ pc = "rr_verify"
    /\ \E cloned \in BOOLEAN :
           LET ev == Ev("clone", frame.detected_url, IF cloned THEN "ok" ELSE "fail")
           IN  /\ made' = Append(made, "recover_remote_exists_repository")
               /\ IF cloned
                  THEN /\ tempDirs' = tempDirs \cup {Len(made) + 1}
                       /\ remote' \in RemoteTrees
                       /\ frame' = [frame EXCEPT !.temp_clone_path = Len(made) + 1]
                       /\ Emit(<<ev>>)
                       /\ pc' = "rr_compare"
                       /\ exit' = exit
                  ELSE /\ RemoteRecoveryReturns(FALSE, FALSE, <<ev>>, frame)
                       /\ remote' = remote
    /\ UNCHANGED <<repoVars, tree, config_defaults, git_installed, argv, host>>

\* git ls-remote for the default branch, then compare_local_vs_remote; with
\* no change the repository is only initialized and connected
recover_remote_compare ==
    /\ pc = "rr_compare"
    /\ \E walk \in Walks(tree, gitDir), ls_ok \in BOOLEAN :
           LET ch == compare_local_vs_remote(walk, ls_ok, LsFiles(remote), tree, remote)
               total_changes == Len(ch.modified) + Len(ch.new) + Len(ch.deleted)
           IN  /\ frame' = [frame EXCEPT !.ls_ok = ls_ok, !.changes = ch,
                                         !.warned = HashWarnings(walk, ls_ok, LsFiles(remote),
                                                                 tree, remote),
                                         !.caller = IF total_changes = 0 THEN "rr0" ELSE "rr"]
               /\ pc' = IF total_changes = 0 THEN "init_repo" ELSE "rr_confirm"
    /\ Emit(<<Ev("ls_remote", frame.detected_url, "")>>)
    /\ UNCHANGED <<repoVars, envVars, tmpVars, exit>>

\* the no-change path: remote add origin, then return True
recover_remote_connect ==
    /\ pc = "rr0_remote"
    /\ \E out \in RemoteConfigOutcomes :
           RemoteRecoveryReturns(out # "fail", FALSE,
                                 RemoteConfigEvents(frame.detected_url, out), frame)
    /\ UNCHANGED <<repoVars, envVars, made>>

\* "Commit and push these changes to GitHub?" (default no)
recover_remote_confirm ==
    /\ pc = "rr_confirm"
    /\ \E typed \in YesNoLines :
           IF ConfirmAsk(typed, FALSE)
           THEN /\ Emit(<<Ev("confirm_recover_remote", typed, "yes")>>)
                /\ pc' = "init_repo"
                /\ UNCHANGED <<frame, exit, tempDirs>>
           ELSE RemoteRecoveryReturns(FALSE, FALSE,
                                      <<Ev("confirm_recover_remote", typed, "no")>>, frame)
    /\ UNCHANGED <<repoVars, envVars, made>>

\* a staging list that also takes the deleted paths
AllChangedFiles_WithDeleted(changes) == changes.modified \o changes.new \o changes.deleted

\* all_changed_files = modified_files + new_files
AllChangedFiles(changes) == changes.modified \o changes.new

\* remote add origin, then the list of files to stage: modified + new
recover_remote_configure ==
    /\ pc = "rr_remote"
    /\ \E out \in RemoteConfigOutcomes :
           LET evs == RemoteConfigEvents(frame.detected_url, out)
               all_changed_files == AllChangedFiles(frame.changes)
           IN  IF out = "fail"
               THEN RemoteRecoveryReturns(FALSE, FALSE, evs, frame)
               ELSE IF all_changed_files = << >>
               THEN RemoteRecoveryReturns(TRUE, FALSE, evs, frame)
               ELSE /\ frame' = [frame EXCEPT !.todo = all_changed_files,
                                              !.staged_files = << >>]
                    /\ Emit(evs)
                    /\ pc' = "rr_add"
                    /\ UNCHANGED <<exit, tempDirs>>
    /\ UNCHANGED <<repoVars, envVars, made>>

\* one round of the staging loop: git add <file> when the file exists
recover_remote_add ==
    /\ pc = "rr_add"
    /\ frame.todo # << >>
    /\ \E ok \in (IF Head(frame.todo) \in DOMAIN tree
                  THEN AddOutcomes(tree, Head(frame.todo)) ELSE {FALSE}) :
           LET f == Head(frame.todo)
               staged == IF ok THEN Append(frame.staged_files, f) ELSE frame.staged_files
               fr == [frame EXCEPT !.todo = Tail(frame.todo), !.staged_files = staged]
               evs == IF f \in DOMAIN tree
                      THEN <<Ev("add", f, IF ok THEN "ok" ELSE "fail")>> ELSE << >>
           IN  /\ index' = IF ok THEN index \cup ({f} \ committed) ELSE index
               /\ IF Tail(frame.todo) = << >> /\ staged = << >>
                  THEN RemoteRecoveryReturns(FALSE, FALSE, evs, fr)
                  ELSE /\ frame' = fr
                       /\ Emit(evs)
                       /\ pc' = IF Tail(frame.todo) = << >> THEN "rr_commit" ELSE "rr_add"
                       /\ UNCHANGED <<exit, tempDirs>>
    /\ UNCHANGED <<gitDir, head, committed, branch, envVars, made>>

RecoverMessage ==
    <<"R", "e", "c", "o", "v", "e", "r", " ", "a", "n", "d", " ", "p", "u", "s", "h", " ",
      "l", "o", "c", "a", "l", " ", "c", "h", "a", "n", "g", "e", "s">>

\* branches git ls-remote can report as the remote's default
DefaultBranches == {"main", "master"}

\* git commit, then git branch --show-current (the remote's default branch
\* when that fails)
recover_remote_commit ==
    /\ pc = "rr_commit"
    /\ \E ok \in CommitOutcomes(index), shown \in BOOLEAN, default_branch \in DefaultBranches :
           LET ev == Ev("commit", RecoverMessage, IF ok THEN "ok" ELSE "fail")
           IN  IF ok
               THEN /\ head' = TRUE
                    /\ committed' = committed \cup index
                    /\ index' = {}
                    /\ frame' = [frame EXCEPT !.current_branch =
                                     IF shown THEN branch ELSE default_branch]
                    /\ Emit(<<ev>>)
                    /\ pc' = "rr_push"
                    /\ UNCHANGED <<exit, tempDirs>>
               ELSE /\ RemoteRecoveryReturns(FALSE, FALSE, <<ev>>, frame)
                    /\ UNCHANGED <<head, committed, index>>
    /\ UNCHANGED <<gitDir, branch, envVars, made>>

\* git push -u origin <current_branch>
recover_remote_push ==
    /\ pc = "rr_push"
    /\ \E out \in PushOutcomes :
           LET ev == Ev("push", <<"first">>, out)
           IN  IF run_git_command(out)
               THEN RemoteRecoveryReturns(TRUE, TRUE, <<ev>>, frame)
               ELSE /\ Emit(<<ev>>)
                    /\ pc' = "rr_repush"
                    /\ UNCHANGED <<frame, exit, tempDirs>>
    /\ UNCHANGED <<repoVars, envVars, made>>

\* the same push again with its output captured; only a fetch-first rejection
\* leads to the three options, anything else (a push that now succeeds, or
\* subprocess.run raising) ends in "Failed to push"
recover_remote_repush ==
    /\ pc = "rr_repush"
    /\ \E out \in PushOutcomes \cup {"raised"} :
           LET ev == Ev("push", <<"rerun">>, out)
           IN  IF IsRejection(Stderr(out))
               THEN /\ Emit(<<ev>>)
                    /\ pc' = "rr_choice"
                    /\ UNCHANGED <<frame, exit, tempDirs>>
               ELSE RemoteRecoveryReturns(FALSE, FALSE, <<ev>>, frame)
    /\ UNCHANGED <<repoVars, envVars, made>>

\* "Choose an option (1/2/3)" (default 1)
recover_remote_choice ==
    /\ pc = "rr_choice"
    /\ \E typed \in ChoiceLines :
           LET ev == Ev("choice", typed, Choice(typed))
           IN  IF Choice(typed) \in {<<"1">>, <<"2">>}
               THEN /\ Emit(<<ev>>)
                    /\ pc' = AfterChoice(Choice(typed), "rr_pull", "rr_force_confirm", "rr_push")
                    /\ UNCHANGED <<frame, exit, tempDirs>>
               ELSE RemoteRecoveryReturns(FALSE, FALSE, <<ev>>, frame)
    /\ UNCHANGED <<repoVars, envVars, made>>

\* git pull origin <branch> --allow-unrelated-histories
recover_remote_pull ==
    /\ pc = "rr_pull"
    /\ \E out \in PullOutcomes :
           LET ev == Ev("pull", AllowUnrelated, out)
           IN  IF PullThenPush(out)
               THEN /\ Emit(<<ev>>)
                    /\ pc' = "rr_push_again"
                    /\ UNCHANGED <<frame, exit, tempDirs>>
               ELSE RemoteRecoveryReturns(FALSE, FALSE, <<ev>>, frame)
    /\ UNCHANGED <<repoVars, envVars, made>>

\* the push after the pull
recover_remote_push_again ==
    /\ pc = "rr_push_again"
    /\ \E out \in PushOutcomes :
           RemoteRecoveryReturns(run_git_command(out), run_git_command(out),
                                 <<Ev("push", <<"retry">>, out)>>, frame)
    /\ UNCHANGED <<repoVars, envVars, made>>

\* "Are you sure you want to overwrite remote content?" (default no)
recover_remote_force_confirm ==
    /\ pc = "rr_force_confirm"
    /\ \E typed \in YesNoLines :
           LET yes == ConfirmAsk(typed, FALSE)
               ev == Ev("confirm_force", typed, IF yes THEN "yes" ELSE "no")
           IN  IF yes
               THEN /\ Emit(<<ev>>)
                    /\ pc' = "rr_force"
                    /\ UNCHANGED <<frame, exit, tempDirs>>
               ELSE RemoteRecoveryReturns(FALSE, FALSE, <<ev>>, frame)
    /\ UNCHANGED <<repoVars, envVars, made>>

\* git push -u origin <branch> --force
recover_remote_force ==
    /\ pc = "rr_force"
    /\ \E ok \in BOOLEAN :
           RemoteRecoveryReturns(ok, ok, <<Ev("push_force", NoStr, IF ok THEN "ok" ELSE "fail")>>,
                                 frame)
    /\ UNCHANGED <<repoVars, envVars, made>>

-----------------------------------------------------------------------------
(* main: the normal onboarding flow                                        *)

\* git rev-parse --verify HEAD: main asks before going on when commits exist
main_check_commits ==
    /\ pc = "revparse"
    /\ \E raised \in {~git_installed} :
           LET has == ~raised /\ gitDir = "dir" /\ head
           IN  /\ Emit(<<Ev("rev_parse", NoStr,
                                 IF raised THEN "raised" ELSE IF has THEN "0" ELSE "128")>>)
               /\ pc' = IF has THEN "continue_ask" ELSE "prereq"
    /\ UNCHANGED <<repoVars, envVars, tmpVars, frame, exit>>

\* "Continue with normal onboarding flow?" (default no); a no returns from main
main_confirm_continue ==
    /\ pc = "continue_ask"
    /\ \E typed \in YesNoLines :
           IF ConfirmAsk(typed, FALSE)
           THEN /\ Emit(<<Ev("confirm_continue", typed, "yes")>>)
                /\ pc' = "prereq"
                /\ exit' = exit
           ELSE Exit("0", <<Ev("confirm_continue", typed, "no")>>)
    /\ UNCHANGED <<repoVars, envVars, tmpVars, frame>>

\* ensure_prerequisites: git and ssh-keygen are present or get installed;
\* install_package lets CalledProcessError and ValueError escape, and main
\* catches neither
ensure_prerequisites ==
    /\ pc = "prereq"
    /\ \E out \in {"ok", "CalledProcessError", "ValueError"} :
           IF out = "ok"
           THEN /\ Emit(<<Ev("ensure_prerequisites", NoStr, out)>>)
                /\ git_installed' = TRUE
                /\ pc' = "ssh"
                /\ exit' = exit
           ELSE /\ Exit("uncaught", <<Ev("ensure_prerequisites", NoStr, out)>>)
                /\ git_installed' = git_installed
    /\ UNCHANGED <<repoVars, tree, remote, config_defaults, argv, host, tmpVars, frame>>

\* ensure_ssh_key: the key pair exists, or the user agrees to generate it and
\* ssh-keygen succeeds; otherwise SystemExit with a message (status 1)
ensure_ssh_key ==
    /\ pc = "ssh"
    /\ \E out \in {"present", "generated", "declined", "keygen_failed"} :
           IF out \in {"present", "generated"}
           THEN /\ Emit(<<Ev("ensure_ssh_key", NoStr, out)>>)
                /\ pc' = "init_repo"
                /\ frame' = [frame EXCEPT !.caller = "main"]
                /\ exit' = exit
           ELSE Exit("1", <<Ev("ensure_ssh_key", NoStr, out)>>) /\ UNCHANGED frame
    /\ UNCHANGED <<repoVars, envVars, tmpVars>>

\* ---- the machine setup of main: package manager, prerequisites, SSH key ----

\* shutil.which(command) is not None
check_command_exists(command) == command \in host.commands

\* the first package manager whose command is on the PATH, "apt" if none is
detect_package_manager ==
    IF check_command_exists("apt-get") THEN "apt"
    ELSE IF check_command_exists("dnf") THEN "dnf"
    ELSE IF check_command_exists("yum") THEN "yum"
    ELSE IF check_command_exists("brew") THEN "brew"
    ELSE "apt"

\* main: the configured package manager, else the detected one
pkg_manager ==
    IF "package_manager" \in DOMAIN config_defaults
    THEN config_defaults["package_manager"]
    ELSE detect_package_manager

Unsupported_Never(mgr) == FALSE

\* install_package: the else branch that raises ValueError
Unsupported(mgr) == mgr \notin {"apt", "dnf", "yum", "brew"}

\* install_package: the commands of each package manager, in order
InstallCommands(package, mgr) ==
    CASE mgr \in {"dnf", "yum"} -> << <<"sudo", mgr, "install", "-y", package>> >>
      [] mgr = "brew" -> << <<"brew", "install", package>> >>
      [] OTHER -> << <<"sudo", "apt-get", "update">>,
                     <<"sudo", "apt-get", "install", "-y", package>> >>

\* subprocess.run(cmd, check=True): FileNotFoundError when the executable is
\* not on the PATH, else the command succeeds or CalledProcessError
RunOutcomes(cmd) ==
    IF check_command_exists(Head(cmd)) THEN {"ok", "CalledProcessError"}
    ELSE {"FileNotFoundError"}

\* the events of running the first k commands, the last one ending with out
RunEvents(cmds, k, out) ==
    [i \in 1..k |-> Ev("run", cmds[i], IF i = k THEN out ELSE "ok")]

\* the files of the key pair in ~/.ssh
KeyPair == {"id_rsa", "id_rsa.pub"}

\* the commands whose presence the setup depends on
HostCommands == {"git", "ssh-keygen", "sudo", "apt-get", "dnf", "yum", "brew"}

Hosts ==
    [commands : SUBSET HostCommands, keys : SUBSET KeyPair, login : BOOLEAN]

\* config files without and with a package manager, a supported one and not
SetupConfigs ==
    {<< >>, [package_manager |-> "brew"], [package_manager |-> "yum"],
     [package_manager |-> "pacman"]}

InitSetup ==
    /\ pc = "setup"
    /\ argv = NoFlags
    /\ host \in Hosts
    /\ config_defaults \in SetupConfigs
    /\ tree = << >>
    /\ gitDir = "absent"
    /\ head = FALSE
    /\ index = {}
    /\ committed = {}
    /\ branch = "none"
    /\ remote = << >>
    /\ git_installed = ("git" \in host.commands)
    /\ tempDirs = {}
    /\ made = << >>
    /\ frame = Frame0
    /\ events = [n |-> 0, l |-> << >>]
    /\ hist = Hist0
    /\ exit = "running"

setupFixed == <<repoVars, tree, remote, config_defaults, git_installed, argv, tmpVars>>

\* main: pkg_manager is chosen and ensure_prerequisites(pkg_manager) is called
main_package_manager ==
    /\ pc = "setup"
    /\ frame' = [frame EXCEPT !.pkg_manager = pkg_manager,
                              !.required_cmds = <<"git", "ssh-keygen">>]
    /\ pc' = "prereq_check"
    /\ UNCHANGED <<setupFixed, host, events, hist, exit>>

\* ensure_prerequisites: one turn of the loop over required_cmds; after the
\* last command main calls ensure_ssh_key
ensure_prerequisites_loop ==
    /\ pc = "prereq_check"
    /\ IF frame.required_cmds = << >>
       THEN /\ pc' = "ssh_check"
            /\ frame' = frame
       ELSE LET cmd == Head(frame.required_cmds)
            IN  IF check_command_exists(cmd)
                THEN /\ pc' = "prereq_check"
                     /\ frame' = [frame EXCEPT !.required_cmds = Tail(@)]
                ELSE /\ pc' = "install"
                     /\ frame' = [frame EXCEPT !.package = cmd]
    /\ UNCHANGED <<setupFixed, host, events, hist, exit>>

\* install_package(package, pkg_manager): an unsupported manager raises
\* ValueError before any command; else the commands run in order, the first
\* failure is re-raised (CalledProcessError) or escapes (FileNotFoundError);
\* neither ensure_prerequisites nor main catches any of them
install_package ==
    /\ pc = "install"
    /\ LET mgr == frame.pkg_manager
           cmds == InstallCommands(frame.package, mgr)
       IN  IF Unsupported(mgr)
           THEN /\ Exit("uncaught", <<Ev("raise", NoStr, "ValueError")>>)
                /\ UNCHANGED <<host, frame>>
           ELSE \E k \in 1..Len(cmds) : \E out \in RunOutcomes(cmds[k]) :
                    /\ \A i \in 1..(k - 1) : "ok" \in RunOutcomes(cmds[i])
                    /\ out = "ok" => k = Len(cmds)
                    /\ IF out = "ok"
                       THEN /\ Emit(RunEvents(cmds, k, out))
                            /\ \E onPath \in BOOLEAN :
                                   host' = [host EXCEPT !.commands =
                                       IF onPath THEN @ \cup {frame.package} ELSE @]
                            /\ frame' = [frame EXCEPT !.required_cmds = Tail(@)]
                            /\ pc' = "prereq_check"
                            /\ exit' = exit
                       ELSE /\ Exit("uncaught", RunEvents(cmds, k, out)
                                        \o <<Ev("raise", NoStr, out)>>)
                            /\ UNCHANGED <<host, frame>>
    /\ UNCHANGED setupFixed

\* ensure_ssh_key: a complete key pair is returned at once
ensure_ssh_key_check ==
    /\ pc = "ssh_check"
    /\ IF KeyPair \subseteq host.keys
       THEN /\ frame' = [frame EXCEPT !.pub_key_path = "id_rsa.pub"]
            /\ Emit(<<Ev("ensure_ssh_key_return", NoStr, "id_rsa.pub")>>)
            /\ pc' = "setup_done"
       ELSE /\ frame' = frame
            /\ Emit(<<Ev("print", NoStr, "SSH key not found")>>)
            /\ pc' = "ssh_confirm"
    /\ UNCHANGED <<setupFixed, host, exit>>

GenerateConfirmed_DefaultYes(typed) == ConfirmAsk(typed, TRUE)

\* Confirm.ask("Generate new SSH key?", default=False)
GenerateConfirmed(typed) == ConfirmAsk(typed, FALSE)

\* ensure_ssh_key: the question whether to generate a key
ensure_ssh_key_confirm ==
    /\ pc = "ssh_confirm"
    /\ \E typed \in YesNoLines :
           IF GenerateConfirmed(typed)
           THEN /\ Emit(<<Ev("confirm_generate", typed, "yes")>>)
                /\ pc' = "ssh_keygen"
                /\ exit' = exit
           ELSE Exit("1", <<Ev("confirm_generate", typed, "no"),
                            Ev("raise", NoStr, "SystemExit")>>)
    /\ UNCHANGED <<setupFixed, host, frame>>

\* ensure_ssh_key: ssh-keygen -t rsa -b 4096 -f id_rsa -N "" -C login@node;
\* os.getlogin() raises OSError without a login name, a missing ssh-keygen
\* raises FileNotFoundError (both escape), a failing ssh-keygen ends in
\* SystemExit; after a success both files exist and the path is returned
ensure_ssh_key_generate ==
    /\ pc = "ssh_keygen"
    /\ LET cmd == <<"ssh-keygen", "-f", "id_rsa">>
       IN  IF ~host.login
           THEN /\ Exit("uncaught", <<Ev("raise", NoStr, "OSError")>>)
                /\ UNCHANGED <<host, frame>>
           ELSE \E out \in RunOutcomes(cmd) :
                    CASE out = "ok" ->
                             /\ host' = [host EXCEPT !.keys = @ \cup KeyPair]
                             /\ frame' = [frame EXCEPT !.pub_key_path = "id_rsa.pub"]
                             /\ Emit(<<Ev("run", cmd, "ok"),
                                       Ev("print", NoStr, "public key"),
                                       Ev("ensure_ssh_key_return", NoStr, "id_rsa.pub")>>)
                             /\ pc' = "setup_done"
                             /\ exit' = exit
                      [] out = "CalledProcessError" ->
                             /\ Exit("1", <<Ev("run", cmd, out),
                                            Ev("raise", NoStr, "SystemExit")>>)
                             /\ UNCHANGED <<host, frame>>
                      [] OTHER ->
                             /\ Exit("uncaught", <<Ev("run", cmd, out),
                                                   Ev("raise", NoStr, out)>>)
                             /\ UNCHANGED <<host, frame>>
    /\ UNCHANGED setupFixed

NextSetup ==
    \/ main_package_manager
    \/ ensure_prerequisites_loop
    \/ install_package
    \/ ensure_ssh_key_check
    \/ ensure_ssh_key_confirm
    \/ ensure_ssh_key_generate

SpecSetup == InitSetup /\ [][NextSetup]_vars

\* outcomes of a check command run with subprocess.run inside try/except
CheckOutcomes == {"ok", "nonzero", "raised"}

\* stage_and_commit: git status --porcelain; a clean tree ends the function
stage_and_commit_status ==
    /\ pc = "sc_status"
    /\ \E out \in CheckOutcomes :
           LET clean == index = {} /\ Stageable(tree, committed) = {}
           IN  /\ Emit(<<Ev("status", NoStr, out)>>)
               /\ pc' = IF out = "ok" /\ clean THEN "remote_prompt" ELSE "sc_add"
    /\ UNCHANGED <<repoVars, envVars, tmpVars, frame, exit>>

\* stage_and_commit: git add .
stage_and_commit_add ==
    /\ pc = "sc_add"
    /\ \E ok \in BOOLEAN :
           IF ok
           THEN /\ index' = index \cup Stageable(tree, committed)
                /\ Emit(<<Ev("add_all", NoStr, "ok")>>)
                /\ pc' = "sc_diff"
                /\ exit' = exit
           ELSE Exit("1", <<Ev("add_all", NoStr, "fail")>>) /\ UNCHANGED index
    /\ UNCHANGED <<gitDir, head, committed, branch, envVars, tmpVars, frame>>

\* whether stage_and_commit goes on to commit after `git diff --cached
\* --name-only': it stops only when the check ran and listed nothing
CommitAfterCheck(out, idx) == ~(out = "ok" /\ idx = {})

\* stage_and_commit: git diff --cached --name-only
stage_and_commit_diff ==
    /\ pc = "sc_diff"
    /\ \E out \in CheckOutcomes :
           /\ Emit(<<Ev("diff_cached", NoStr, out)>>)
           /\ pc' = IF CommitAfterCheck(out, index) THEN "sc_commit" ELSE "remote_prompt"
    /\ UNCHANGED <<repoVars, envVars, tmpVars, frame, exit>>

\* stage_and_commit: git commit -m <message>
stage_and_commit_commit ==
    /\ pc = "sc_commit"
    /\ \E ok \in CommitOutcomes(index) :
           IF ok
           THEN /\ head' = TRUE
                /\ committed' = committed \cup index
                /\ index' = {}
                /\ Emit(<<Ev("commit", commit_message, "ok")>>)
                /\ pc' = "remote_prompt"
                /\ exit' = exit
           ELSE /\ Exit("1", <<Ev("commit", commit_message, "fail")>>)
                /\ UNCHANGED <<head, committed, index>>
    /\ UNCHANGED <<gitDir, branch, envVars, tmpVars, frame>>

\* "Enter GitHub repository clone URL"; no URL ends the run with status 1
main_ask_remote ==
    /\ pc = "remote_prompt"
    /\ \E typed \in UrlLines :
           LET remote_url == Strip(PromptAsk(typed, NoStr))
           IN  IF remote_url = NoStr
               THEN Exit("1", <<Ev("ask_push_url", typed, "")>>) /\ UNCHANGED frame
               ELSE /\ frame' = [frame EXCEPT !.push_url = remote_url]
                    /\ Emit(<<Ev("ask_push_url", typed, "")>>)
                    /\ pc' = "p_remote"
                    /\ exit' = exit
    /\ UNCHANGED <<repoVars, envVars, tmpVars>>

-----------------------------------------------------------------------------
(* push_to_remote                                                          *)

\* remote add origin <url> (set-url when that fails)
push_to_remote_configure ==
    /\ pc = "p_remote"
    /\ \E out \in RemoteConfigOutcomes :
           IF out = "fail"
           THEN Exit("1", RemoteConfigEvents(frame.push_url, out))
           ELSE /\ Emit(RemoteConfigEvents(frame.push_url, out))
                /\ pc' = "p_branch"
                /\ exit' = exit
    /\ UNCHANGED <<repoVars, envVars, tmpVars, frame>>

\* git branch --show-current; when it fails: rev-parse HEAD, and with commits
\* git branch -M main ("master" when the rename fails)
push_to_remote_current_branch ==
    /\ pc = "p_branch"
    /\ \E out \in {"shown", "renamed", "rename_failed", "no_commits", "error"} :
           /\ out \in {"renamed", "rename_failed"} => head
           /\ out = "no_commits" => ~head
           /\ LET ev == Ev("current_branch", NoStr, out)
                  current_branch == CASE out = "shown" -> branch
                                      [] out = "renamed" -> "main"
                                      [] OTHER -> "master"
              IN  IF out \in {"no_commits", "error"}
                  THEN Exit("1", <<ev>>) /\ UNCHANGED <<frame, branch>>
                  ELSE /\ branch' = IF out = "renamed" THEN "main" ELSE branch
                       /\ frame' = [frame EXCEPT !.current_branch = current_branch]
                       /\ Emit(<<ev>>)
                       /\ pc' = IF branch_name # current_branch THEN "p_target" ELSE "p_push"
                       /\ exit' = exit
    /\ UNCHANGED <<gitDir, head, index, committed, envVars, tmpVars>>

\* how git branch <target>, git checkout <target> can end
TargetOutcomes == {"ok", "branch_failed", "checkout_failed"}

\* a target-branch step that forgets to switch the name it pushes
BranchToPush_KeepsCurrent(out, current_branch, target) == current_branch

\* current_branch after the try block: the target when both commands
\* returned, the old name when one of them raised
BranchToPush(out, current_branch, target) ==
    IF run_git_command(out) THEN target ELSE current_branch

\* the target branch differs: git branch <target>, git checkout <target>; a
\* failure keeps the current branch
push_to_remote_target_branch ==
    /\ pc = "p_target"
    /\ \E out \in TargetOutcomes :
           /\ branch' = IF run_git_command(out) THEN branch_name ELSE branch
           /\ frame' = [frame EXCEPT !.current_branch =
                            BranchToPush(out, frame.current_branch, branch_name)]
           /\ Emit(<<Ev("create_branch", NoStr, out)>>)
    /\ pc' = "p_push"
    /\ UNCHANGED <<gitDir, head, index, committed, envVars, tmpVars, exit>>

\* git push -u origin <current_branch>; success ends main with status 0
push_to_remote_push ==
    /\ pc = "p_push"
    /\ \E out \in PushOutcomes :
           LET ev == Ev("push", <<"first">>, out)
           IN  IF run_git_command(out)
               THEN Exit("0", <<ev>>)
               ELSE /\ Emit(<<ev>>)
                    /\ pc' = "p_repush"
                    /\ exit' = exit
    /\ UNCHANGED <<repoVars, envVars, tmpVars, frame>>

\* the same push again with its output captured; without a fetch-first
\* rejection the SystemExit of the first push is re-raised, and an exception
\* of subprocess.run itself leaves main uncaught
push_to_remote_repush ==
    /\ pc = "p_repush"
    /\ \E out \in PushOutcomes \cup {"raised"} :
           LET ev == Ev("push", <<"rerun">>, out)
           IN  IF IsRejection(Stderr(out))
               THEN /\ Emit(<<ev>>)
                    /\ pc' = "p_choice"
                    /\ exit' = exit
               ELSE Exit(IF out = "raised" THEN "uncaught" ELSE "1", <<ev>>)
    /\ UNCHANGED <<repoVars, envVars, tmpVars, frame>>

\* "Choose an option (1/2/3)" (default 1)
push_to_remote_choice ==
    /\ pc = "p_choice"
    /\ \E typed \in ChoiceLines :
           LET ev == Ev("choice", typed, Choice(typed))
           IN  IF Choice(typed) \in {<<"1">>, <<"2">>}
               THEN /\ Emit(<<ev>>)
                    /\ pc' = AfterChoice(Choice(typed), "p_pull", "p_force_confirm", "p_push")
                    /\ exit' = exit
               ELSE Exit("1", <<ev>>)
    /\ UNCHANGED <<repoVars, envVars, tmpVars, frame>>

\* git pull origin <branch> --allow-unrelated-histories
push_to_remote_pull ==
    /\ pc = "p_pull"
    /\ \E out \in PullOutcomes :
           IF PullThenPush(out)
           THEN /\ Emit(<<Ev("pull", AllowUnrelated, out)>>)
                /\ pc' = "p_push_again"
                /\ exit' = exit
           ELSE Exit("1", <<Ev("pull", AllowUnrelated, out)>>)
    /\ UNCHANGED <<repoVars, envVars, tmpVars, frame>>

\* the push after the pull
push_to_remote_push_again ==
    /\ pc = "p_push_again"
    /\ \E out \in PushOutcomes :
           Exit(IF run_git_command(out) THEN "0" ELSE "1", <<Ev("push", <<"retry">>, out)>>)
    /\ UNCHANGED <<repoVars, envVars, tmpVars, frame>>

\* "Are you sure you want to overwrite remote content?" (default no)
push_to_remote_force_confirm ==
    /\ pc = "p_force_confirm"
    /\ \E typed \in YesNoLines :
           LET yes == ConfirmAsk(typed, FALSE)
               ev == Ev("confirm_force", typed, IF yes THEN "yes" ELSE "no")
           IN  IF yes
               THEN /\ Emit(<<ev>>)
                    /\ pc' = "p_force"
                    /\ exit' = exit
               ELSE Exit("1", <<ev>>)
    /\ UNCHANGED <<repoVars, envVars, tmpVars, frame>>

\* git push -u origin <branch> --force
push_to_remote_force ==
    /\ pc = "p_force"
    /\ \E ok \in BOOLEAN :
           Exit(IF ok THEN "0" ELSE "1", <<Ev("push_force", NoStr, IF ok THEN "ok" ELSE "fail")>>)
    /\ UNCHANGED <<repoVars, envVars, tmpVars, frame>>

-----------------------------------------------------------------------------
(* The run                                                                 *)

Next ==
    \/ prompt_gitignore_patterns
    \/ create_default_gitignore
    \/ recover_detached_repository
    \/ detect_resolve_url
    \/ detect_verify
    \/ detect_ask
    \/ detect_finally
    \/ recover_detached_dispatch
    \/ initialize_repo
    \/ initialize_repo_rename
    \/ recover_local_scan
    \/ recover_local_confirm
    \/ recover_local_add
    \/ recover_local_commit
    \/ recover_remote_verify
    \/ recover_remote_compare
    \/ recover_remote_connect
    \/ recover_remote_confirm
    \/ recover_remote_configure
    \/ recover_remote_add
    \/ recover_remote_commit
    \/ recover_remote_push
    \/ recover_remote_repush
    \/ recover_remote_choice
    \/ recover_remote_pull
    \/ recover_remote_push_again
    \/ recover_remote_force_confirm
    \/ recover_remote_force
    \/ main_check_commits
    \/ main_confirm_continue
    \/ ensure_prerequisites
    \/ ensure_ssh_key
    \/ stage_and_commit_status
    \/ stage_and_commit_add
    \/ stage_and_commit_diff
    \/ stage_and_commit_commit
    \/ main_ask_remote
    \/ push_to_remote_configure
    \/ push_to_remote_current_branch
    \/ push_to_remote_target_branch
    \/ push_to_remote_push
    \/ push_to_remote_repush
    \/ push_to_remote_choice
    \/ push_to_remote_pull
    \/ push_to_remote_push_again
    \/ push_to_remote_force_confirm
    \/ push_to_remote_force

Spec == Init /\ [][Next]_vars

-----------------------------------------------------------------------------
(* Claims about a run (checked under Spec)                                 *)

\* the latest step issued an event of this kind
Issued(e) == \E i \in 1..Len(events.l) : events.l[i].e = e

\* the latest step issued an event of this kind with this result
IssuedWith(e, r) == \E i \in 1..Len(events.l) : events.l[i].e = e /\ events.l[i].r = r

\* the temporary clones that function created and that still exist
ClonesOf(function) == {d \in tempDirs : made[d] = function}

\* C1: every temporary clone directory is removed before the function that
\* created it returns to its caller: none of recover_remote_exists_repository
\* exists when that function has returned, none of detect_recovery_scenario
\* when that function has returned.
C1_ClonesRemoved ==
    /\ Issued("rr_return") => ClonesOf("recover_remote_exists_repository") = {}
    /\ pc = "dispatch" => ClonesOf("detect_recovery_scenario") = {}

\* what C2 rules out after a cancelled classification
AfterCancel ==
    {"init", "branch_M", "add", "add_all", "commit", "remote_add", "remote_set_url", "push",
     "push_force", "ensure_prerequisites", "ensure_ssh_key"}

\* C2: once the user answered no to "Proceed as local-only repository?" the
\* run issues no git init, add, commit, remote configuration or push and starts
\* no prerequisite or SSH key step.
C2_CancelAborts ==
    hist.unknown => \A i \in 1..Len(events.l) : events.l[i].e \notin AfterCancel

\* C3: a force push is issued only after the captured push was rejected with
\* "fetch first", the user chose option 2 and answered yes to the second
\* confirmation; an empty answer to that confirmation is a no; and a no ends
\* the push code as cancelled (status 1 in push_to_remote, False in
\* recover_remote_exists_repository) without a force push.
C3_ForcePushGuarded ==
    /\ Issued("push_force") =>
           /\ hist.rejected
           /\ hist.choice = "2"
           /\ hist.confirmed
    /\ \A i \in 1..Len(events.l) :
           (events.l[i].e = "confirm_force" /\ events.l[i].a = NoStr) => events.l[i].r = "no"
    /\ IssuedWith("confirm_force", "no") =>
           /\ ~Issued("push_force")
           /\ ~hist.forced
           /\ \/ pc = "done" /\ exit = "1"
              \/ IssuedWith("rr_return", "False")

\* a force push that was issued after rejection, option 2 and a yes
C3_Witness ==
    /\ Issued("push_force")
    /\ hist.rejected
    /\ hist.choice = "2"
    /\ hist.confirmed
    /\ hist.forced

\* the push after the pull succeeded
RetrySucceeded ==
    \E i \in 1..Len(events.l) :
        events.l[i].e = "push" /\ events.l[i].a = <<"retry">> /\ events.l[i].r = "ok"

\* C4: pull-then-retry after a rejected push, the pull and the push after it
\* succeeding, ends in success with exactly two push commands issued.
C4_TwoPushes ==
    RetrySucceeded =>
        /\ pc = "done"
        /\ exit = "0"
        /\ hist.pushes = 2

\* the run ended because a recovery or the normal flow completed
Completed ==
    \/ IssuedWith("recover_detached_return", "True")
    \/ IssuedWith("push", "ok")
    \/ IssuedWith("push_force", "ok")

\* C5: the process ends with a non-zero status after every hard failure of
\* the recovery path and after every cancellation by the user, and with
\* status zero only when the recovery or the normal flow completed.
C5_ExitStatus ==
    pc = "done" =>
        /\ (hist.cancelled \/ hist.failed) => exit # "0"
        /\ exit = "0" => Completed

\* C6: no git commit command is issued while nothing is staged.
C6_NoEmptyCommit == [][Issued("commit")' => index # {}]_vars

\* the line the user typed at the URL prompt is empty or blank
BlankAnswer ==
    /\ frame.answer # NoneStr
    /\ \A i \in 1..Len(frame.answer) : IsSpace(frame.answer[i])

\* C7: without a remote_url in the config (none or an empty one) and with an
\* empty line at the URL prompt, detect_recovery_scenario returns
\* ('local_only', None) and no verification clone is attempted.
C7_NoUrlLocalOnly ==
    (/\ pc \in {"detect_verify", "detect_ask", "detect_finally", "dispatch"}
     /\ ConfigGet(config_defaults, "remote_url", NoneStr) \in {NoneStr, NoStr}
     /\ BlankAnswer)
    => /\ pc = "dispatch"
       /\ frame.scenario = "local_only"
       /\ frame.detected_url = NoneStr
       /\ made = << >>

\* the user pressed Enter at the URL prompt, the config has no remote_url
C7_Witness ==
    /\ pc = "dispatch"
    /\ config_defaults = << >>
    /\ frame.answer = NoStr
    /\ frame.scenario = "local_only"
    /\ frame.detected_url = NoneStr
    /\ made = << >>

\* C8: with a URL, detect_recovery_scenario makes exactly one verification
\* clone and never ends the process or raises because of it; it returns
\* ('remote_exists', URL) after a successful clone, and after a failed one
\* ('local_only', None) on yes (the default) or ('unknown', None) on no.
C8_OneCloneSoftFailure ==
    /\ (Issued("clone") /\ made[Len(made)] = "detect_recovery_scenario") =>
           /\ exit = "running"
           /\ Len(made) = 1
    /\ (pc = "dispatch" /\ frame.remote_url \notin {NoneStr, NoStr}) =>
           /\ made = <<"detect_recovery_scenario">>
           /\ \/ frame.scenario = "remote_exists" /\ frame.detected_url = frame.remote_url
              \/ frame.scenario = "local_only" /\ frame.detected_url = NoneStr
              \/ frame.scenario = "unknown" /\ frame.detected_url = NoneStr
    /\ \A i \in 1..Len(events.l) :
           events.l[i].e = "confirm_local_only" =>
               /\ events.l[i].a = NoStr => events.l[i].r = "local_only"
               /\ frame.scenario = events.l[i].r

\* the step about to be taken issues `git add <path>' for this path
Adds(path) == \E i \in 1..Len(events'.l) : events'.l[i].e = "add" /\ events'.l[i].a = path

\* the comparison found the path with the same fingerprint on both sides
Unchanged(path) ==
    /\ path \in DOMAIN tree \cap RemoteSet
    /\ calculate_file_hash(tree, path) = calculate_file_hash(remote, path)

\* C16: the staging loop of recover_remote_exists_repository passes to git
\* add only paths of modified and new, never a deleted or an unchanged path,
\* and what it stages is among them; the normal path stages with one
\* `git add .' that puts every non-ignored working file in the index.
C16_StagesOnlyChanges ==
    [][/\ pc = "rr_add" =>
              /\ Range(frame.todo) \subseteq
                     Range(frame.changes.modified) \cup Range(frame.changes.new)
              /\ \A path \in DOMAIN tree \cup DOMAIN remote :
                     Adds(path) =>
                         /\ path = Head(frame.todo)
                         /\ path \notin Range(frame.changes.deleted)
                         /\ ~Unchanged(path)
              /\ index' \ index \subseteq
                     Range(frame.changes.modified) \cup Range(frame.changes.new)
              /\ ~Issued("add_all")'
       /\ pc = "sc_add" =>
              /\ Issued("add_all")' /\ ~Issued("add")'
              /\ IssuedWith("add_all", "ok")' => index' = index \cup Stageable(tree, committed)
       /\ Issued("add_all")' => pc = "sc_add"
       /\ Issued("add")' => pc \in {"rr_add", "rl_add"}]_vars

\* the staging loop has added a new file while the comparison also found a
\* file on the remote only and an unchanged file
C16_Witness ==
    /\ pc \in {"rr_add", "rr_commit"}
    /\ IssuedWith("add", "ok")
    /\ index \cap Range(frame.changes.new) # {}
    /\ frame.changes.deleted # << >>
    /\ \E path \in DOMAIN tree : Unchanged(path)

\* the files recover_local_only_repository is to stage: every regular file of
\* the project outside .git that is not named .gitignore
LocalOnlyFiles == {p \in DOMAIN tree : PathName(p) # GitignorePath}

\* the commit step of a local-only recovery issues one commit command with the
\* message of the config file, else 'Initial commit', and returns
OneCommit(returned) ==
    \E r \in {"ok", "fail"} :
        /\ SubSeq(events'.l, 1, 2) =
               <<Ev("commit", IF "message" \in DOMAIN config_defaults
                              THEN config_defaults.message ELSE InitialCommit, r),
                 Ev("rl_return", NoStr, returned[r])>>
        /\ \A i \in 2..Len(events'.l) : events'.l[i].e \notin {"commit", "add"}
        /\ hist'.commits = 1

RemoteAhead == {"fetch_first", "non_ff"}

\* C18: every push failure that says the remote is ahead (non-fast-forward
\* or fetch-first) leads to the choice between pull-then-retry, force push
\* and cancel, with pull-then-retry taken on Enter; no other push failure
\* leads to that choice.
C18_RemoteAheadOffersChoice ==
    /\ \A i \in 1..Len(events.l) :
           /\ (/\ events.l[i].e = "push"
               /\ events.l[i].a = <<"rerun">>
               /\ events.l[i].r \in RemoteAhead) => pc \in {"p_choice", "rr_choice"}
           /\ (events.l[i].e = "choice" /\ events.l[i].a = NoStr) =>
                  events.l[i].r = <<"1">> /\ pc \in {"p_pull", "rr_pull"}
    /\ pc \in {"p_choice", "rr_choice"} =>
           \E i \in 1..Len(events.l) :
               events.l[i].e = "push" /\ events.l[i].r \in RemoteAhead

\* C19: after a first push that failed for another reason than a remote-ahead
\* rejection (authentication, network) no further push command is issued:
\* the failure is reported and the run stops, with no automatic retry.
C19_NoPushAfterOtherFailure ==
    [][IssuedWith("push", "other") => ~Issued("push")' /\ ~Issued("push_force")']_vars

\* C20: after option 1 the pull, with unrelated histories allowed, is issued
\* once and followed by at most one push; when the pull fails no push follows
\* it and the operation ends as failed: push_to_remote ends the process with
\* status 1, recover_remote_exists_repository returns False.
C20_PullThenOneRetry ==
    /\ hist.pulls <= 1
    /\ hist.retries <= 1
    /\ hist.pulls = 1 => hist.choice = "1"
    /\ hist.retries = 1 => hist.pulled
    /\ \A i \in 1..Len(events.l) :
           /\ events.l[i].e = "pull" => events.l[i].a = AllowUnrelated
           /\ (events.l[i].e = "pull" /\ events.l[i].r = "fail") =>
                  /\ \A j \in 1..Len(events.l) : events.l[j].e \notin {"push", "push_force"}
                  /\ \/ pc = "done" /\ exit = "1"
                     \/ IssuedWith("rr_return", "False")
           /\ (events.l[i].e = "push" /\ events.l[i].a = <<"retry">>) =>
                  hist.pulls = 1 /\ hist.retries = 1

\* the pull of option 1 failed in push_to_remote and the run ended with status 1
C20_Witness ==
    /\ IssuedWith("pull", "fail")
    /\ hist.choice = "1"
    /\ hist.pulls = 1
    /\ hist.retries = 0
    /\ pc = "done"
    /\ exit = "1"

\* C21: an answer at "Choose an option (1/2/3)" that is neither 1 nor 2 is a
\* cancel: the step that reads it issues no pull, push or force push and
\* ends the operation as failed (push_to_remote: status 1; the recovery:
\* returns False), and nothing of the push code runs after it.
C21_OtherAnswerCancels ==
    /\ \A i \in 1..Len(events.l) :
           (/\ events.l[i].e = "choice"
            /\ Strip(PromptAsk(events.l[i].a, <<"1">>)) \notin {<<"1">>, <<"2">>}) =>
               /\ \A j \in 1..Len(events.l) :
                      events.l[j].e \notin {"pull", "push", "push_force"}
               /\ \/ pc = "done" /\ exit = "1"
                  \/ IssuedWith("rr_return", "False")
    /\ hist.choice = "cancel" =>
           /\ hist.pulls = 0 /\ hist.retries = 0 /\ ~hist.forced
           /\ pc \notin {"p_pull", "p_push_again", "p_force_confirm", "p_force",
                         "rr_pull", "rr_push_again", "rr_force_confirm", "rr_force"}

\* the user typed 3 at the prompt of push_to_remote and the run ended with
\* status 1 after the two pushes that preceded the prompt
C21_Witness ==
    /\ \E i \in 1..Len(events.l) : events.l[i].e = "choice" /\ events.l[i].a = <<"3">>
    /\ hist.choice = "cancel"
    /\ hist.pushes = 2
    /\ pc = "done"
    /\ exit = "1"

\* C22: when the current branch differs from the target, push_to_remote
\* creates and checks out the target before pushing, and pushes the target;
\* when git branch or git checkout fails it pushes the original current
\* branch, and push_to_remote goes on to the push either way.
C22_TargetBranch ==
    [][/\ (pc = "p_branch" /\ pc' \in {"p_target", "p_push"}) =>
              (pc' = "p_target" <=> frame'.current_branch # branch_name)
       /\ pc = "p_target" =>
              /\ Issued("create_branch")'
              /\ pc' = "p_push" /\ exit' = "running"
              /\ IssuedWith("create_branch", "ok")' =>
                     frame'.current_branch = branch_name /\ branch' = branch_name
              /\ ~IssuedWith("create_branch", "ok")' =>
                     frame'.current_branch = frame.current_branch /\ branch' = branch
       /\ (pc = "p_push" /\ ~Issued("create_branch")) => frame.current_branch = branch_name
       /\ Issued("create_branch")' => pc = "p_target"
       /\ pc \in {"p_push", "p_repush", "p_choice", "p_pull", "p_push_again",
                   "p_force_confirm", "p_force"} => frame'.current_branch = frame.current_branch]_vars

\* the repository is on master, git checkout main failed, and master is
\* about to be pushed
C22_Witness ==
    /\ pc = "p_push"
    /\ IssuedWith("create_branch", "checkout_failed")
    /\ frame.current_branch = "master"
    /\ branch = "master"
    /\ exit = "running"

\* what the flag, else the config key, else the built-in default gives
Precedence(flag, key, default) ==
    IF argv[flag] # << >> THEN argv[flag][1]
    ELSE IF key \in DOMAIN config_defaults THEN config_defaults[key]
    ELSE default

\* C23: project path, commit message and branch of a run, and the commit
\* message of the local-only recovery, are the command-line value when the
\* flag was given, else the config value when the key is present, else the
\* built-in default ('.', 'Initial commit', 'main').
C23_OptionPrecedence ==
    pc = "resolved" =>
        /\ frame.options.project_path = Precedence("project", "project", ".")
        /\ frame.options.commit_message = Precedence("message", "message", InitialCommit)
        /\ frame.options.branch_name = Precedence("branch", "branch", "main")
        /\ frame.options.recover_local_commit_message =
               Precedence("message", "message", InitialCommit)

\* the steps of recover_detached_repository and of what it calls, but for
\* initialize_repo, which the normal flow calls as well
RecoverySteps ==
    {"recover_detached", "detect_url", "detect_verify", "detect_ask", "detect_finally",
     "dispatch", "rl_scan", "rl_confirm", "rl_add", "rl_commit", "rr_verify", "rr_compare",
     "rr0_remote", "rr_confirm", "rr_remote", "rr_add", "rr_commit", "rr_push", "rr_repush",
     "rr_choice", "rr_pull", "rr_push_again", "rr_force_confirm", "rr_force"}

\* with .git in place main goes straight to its check for commits, and
\* recover_detached_repository, if called, is left at once with False:
\* no prompt, no clone, no git command; a recovery step is entered only
\* through main's test
NoRecoveryStep ==
    /\ (pc = "create_gitignore" /\ gitDir = "dir") =>
           /\ events'.l = << >>
           /\ pc' = "revparse"
           /\ UNCHANGED <<repoVars, tmpVars, exit>>
    /\ (pc = "recover_detached" /\ gitDir = "dir") =>
           /\ events'.l = <<Ev("recover_detached_return", NoStr, "False")>>
           /\ pc' = "revparse"
           /\ UNCHANGED <<repoVars, envVars, tmpVars, exit>>
    /\ pc' \in RecoverySteps =>
           \/ pc \in RecoverySteps \cup {"init_repo", "init_rename"}
           \/ pc = "create_gitignore" /\ gitDir # "dir"

\* a no at "Continue with normal onboarding flow?" ends main with nothing
\* initialised, staged, committed or pushed
DeclineEndsRun ==
    (pc = "continue_ask" /\ IssuedWith("confirm_continue", "no")') =>
        /\ Len(events'.l) = 1
        /\ pc' = "done" /\ exit' = "0"
        /\ UNCHANGED <<repoVars, envVars, tmpVars>>

\* C24: with a repository metadata directory in the project root
\* no recovery step runs and main resumes the normal flow; it asks whether
\* to continue when commits already exist, and a no ends the run without
\* init, stage, commit or push.
C24_NoRecoveryAsksFirst ==
    [][/\ NoRecoveryStep
       /\ (pc = "revparse" /\ gitDir = "dir" /\ head) => pc' = "continue_ask"
       /\ DeclineEndsRun]_vars

\* C25: is_git_repository is True exactly when project/.git exists and is a
\* directory: False for a project folder that does not exist, for a folder
\* without .git, and for a .git that is not a directory.
C25_DotGitDirectory ==
    pc = "probed" =>
        /\ frame.is_repo = "True" <=> gitDir = "dir"
        /\ gitDir \in {"no_project", "absent", "file"} => frame.is_repo = "False"

\* the call on a folder whose .git is a regular file
C25_Witness ==
    /\ pc = "probed"
    /\ gitDir = "file"
    /\ tree # << >>
    /\ frame.is_repo = "False"

\* ---- claims about the machine setup ----

\* the events of a step that run a command
Runs(evs) == {i \in DOMAIN evs : evs[i].e = "run"}

\* C26: install_package called with a package manager other than apt, dnf,
\* yum or brew raises ValueError and runs no installation command
C26_UnsupportedManager ==
    [][(pc = "install" /\ frame.pkg_manager \notin {"apt", "dnf", "yum", "brew"})
       => /\ events'.l = <<Ev("raise", NoStr, "ValueError")>>
          /\ Runs(events'.l) = {}
          /\ host' = host]_vars

C26_Witness ==
    /\ frame.pkg_manager = "pacman"
    /\ frame.package = "ssh-keygen"
    /\ events.l = <<Ev("raise", NoStr, "ValueError")>>
    /\ exit = "uncaught"

\* the ssh-keygen commands among the events of a step
Keygens(evs) == {i \in DOMAIN evs : evs[i].e = "run" /\ Head(evs[i].a) = "ssh-keygen"}

\* the step asked the user something
Prompts(evs) == {i \in DOMAIN evs : evs[i].e = "confirm_generate"}

\* the step returned the path of the public key from ensure_ssh_key
ReturnsPublicKey(evs) ==
    \E i \in DOMAIN evs : evs[i] = Ev("ensure_ssh_key_return", NoStr, "id_rsa.pub")

\* the line typed at "Generate new SSH key?" in the step before
TypedYes ==
    /\ Len(events.l) = 1
    /\ events.l[1].e = "confirm_generate"
    /\ events.l[1].a \in {<<"y">>, <<"Y">>}

\* C27: ssh-keygen is invoked only when the key pair is incomplete and the
\* user confirmed; after a confirmed, successful generation the public-key
\* path is returned and the file exists; with both key files present the path
\* is returned without prompting or generating; when the user declines,
\* SystemExit is raised and ssh-keygen is not invoked
C27_SshKey ==
    [][/\ Keygens(events'.l) # {}
          => ~({"id_rsa", "id_rsa.pub"} \subseteq host.keys) /\ TypedYes
       /\ (\E i \in Keygens(events'.l) : events'.l[i].r = "ok")
          => /\ ReturnsPublicKey(events'.l)
             /\ frame'.pub_key_path = "id_rsa.pub"
             /\ "id_rsa.pub" \in host'.keys
       /\ (pc = "ssh_check" /\ {"id_rsa", "id_rsa.pub"} \subseteq host.keys)
          => /\ ReturnsPublicKey(events'.l)
             /\ frame'.pub_key_path = "id_rsa.pub"
             /\ Prompts(events'.l) = {} /\ Keygens(events'.l) = {}
             /\ pc' = "setup_done" /\ host' = host
       /\ (\E i \in Prompts(events'.l) : events'.l[i].a \in {NoStr, <<"n">>})
          => /\ events'.l[Len(events'.l)] = Ev("raise", NoStr, "SystemExit")
             /\ exit' = "1" /\ pc' = "done"
             /\ Keygens(events'.l) = {} /\ host' = host]_vars

\* ssh-keygen ran and succeeded, and the path of the new public key came back
C27_Witness ==
    /\ pc = "setup_done"
    /\ \E i \in Keygens(events.l) : events.l[i].r = "ok"
    /\ host.keys = {"id_rsa", "id_rsa.pub"}
    /\ frame.pub_key_path = "id_rsa.pub"

\* the step raised this exception
Raised(evs, exc) == \E i \in DOMAIN evs : evs[i] = Ev("raise", NoStr, exc)

\* C28: every fatal condition of a run of main ends with SystemExit and a
\* non-zero status; no other exception (CalledProcessError of a failed
\* installation, ValueError of an unsupported package manager) leaves main
C28_OnlySystemExit ==
    pc = "done" => /\ exit = "1"
                   /\ Raised(events.l, "SystemExit")
                   /\ ~Raised(events.l, "CalledProcessError")
                   /\ ~Raised(events.l, "ValueError")

\* ---- claims about the comparison as a function of its inputs ----

\* the three lists as sets
AsSets(changes) ==
    [modified |-> Range(changes.modified),
     new |-> Range(changes.new),
     deleted |-> Range(changes.deleted)]

\* the entries of a set one after the other, in some order
RECURSIVE Enumerate(_)
Enumerate(S) ==
    IF S = {} THEN << >>
    ELSE LET x == CHOOSE x \in S : TRUE IN <<x>> \o Enumerate(S \ {x})

\* one walk of the project, to compare every run with
RefWalk == Enumerate(LocalEntries(tree, gitDir))

\* C29: for fixed local files, fixed clone and fixed ignore file, the
\* modified, new and deleted sets of compare_local_vs_remote are the same
\* whatever order the walk and git ls-files enumerate the paths in: the sets
\* of every run, whatever its walk, are those of the run with the reference
\* walk and any order of the ls-files lines
C29_OrderIndependent ==
    pc = "compared"
    => LET walk == RefWalk
           sets == AsSets(frame.changes)
       IN  \A ls_lines \in Orders(DOMAIN remote) :
               AsSets(compare_local_vs_remote(walk, frame.ls_ok, ls_lines, tree, remote))
                   = sets

\* a comparison of two local files with all three sets non-empty
C29_Witness ==
    /\ pc = "compared"
    /\ Cardinality(Walks(tree, gitDir)) >= 2
    /\ Cardinality(DOMAIN remote) = 2
    /\ frame.changes.modified # << >>
    /\ frame.changes.new # << >>
    /\ frame.changes.deleted # << >>

\* ---- claims about the ignore filter ----

\* one line of the .gitignore filters the path by the three stated rules
LineFilters(line, path) ==
    LET pattern == Strip(line)
    IN  /\ pattern # NoStr
        /\ ~StartsWith(pattern, <<"#">>)
        /\ \/ /\ EndsWith(pattern, <<"/">>)
              /\ StartsWith(path, SubSeq(pattern, 1, Len(pattern) - 1))
           \/ /\ StartsWith(pattern, <<"*">>)
              /\ EndsWith(path, SubSeq(pattern, 2, Len(pattern)))
           \/ Contains(path, pattern)

\* C30: a local path is filtered out exactly when some non-empty,
\* non-comment line of the .gitignore is a directory pattern whose prefix the
\* path starts with, a wildcard-suffix pattern whose tail the path ends with,
\* or a pattern that occurs in the path as a substring
C30_FilteredExactly ==
    pc = "ignored"
    => (frame.ignored = "True"
        <=> \E i \in DOMAIN frame.gitignore_lines :
                LineFilters(frame.gitignore_lines[i], frame.file_str))

\* ---- claims about the run as a whole ----

\* C31: within one run the remote is cloned for verification once: the clone
\* made by the classifier's successful verification is the one the comparison
\* reads, and it still exists then; no second clone is made that could fail
\* after the classification succeeded
C31_ClonedOnce ==
    /\ Len(made) <= 1
    /\ pc = "rr_compare"
       => /\ frame.temp_clone_path \in tempDirs
          /\ made[frame.temp_clone_path] = "detect_recovery_scenario"

\* the events of a step with one of the given names
EventsNamed(evs, names) == {i \in DOMAIN evs : evs[i].e \in names}

\* the steps of push_to_remote and of the push phase of the remote recovery
PushSteps ==
    {"p_remote", "p_branch", "p_target", "p_push", "p_repush", "p_choice", "p_pull",
     "p_push_again", "p_force_confirm", "p_force",
     "rr_push", "rr_repush", "rr_choice", "rr_pull", "rr_push_again",
     "rr_force_confirm", "rr_force"}

\* the step ends a commit step: stage_and_commit returns (clean tree, nothing
\* staged, or its commit succeeded) or the recovery's commit succeeded
CommitStepEnds ==
    \/ pc \in {"sc_status", "sc_diff"} /\ pc' = "remote_prompt"
    \/ /\ pc \in {"sc_commit", "rr_commit"}
       /\ \E i \in EventsNamed(events'.l, {"commit"}) : events'.l[i].r = "ok"

\* C32: the stages are ordered Init, Stage, Commit, Push: no git add before
\* the repository is initialized or found, no commit before staging, no push
\* before the commit step has finished; and compare_local_vs_remote runs only
\* when the scenario is remote_exists, never in the local-only, unknown or
\* already-initialized cases
C32_StageOrder ==
    [][/\ EventsNamed(events'.l, {"add", "add_all"}) # {} => gitDir = "dir"
       /\ EventsNamed(events'.l, {"commit"}) # {} => hist.staged /\ gitDir = "dir"
       /\ EventsNamed(events'.l, {"push", "pull", "push_force"}) # {} => pc \in PushSteps
       /\ (pc' \in PushSteps /\ pc \notin PushSteps)
          => CommitStepEnds \/ pc = "remote_prompt"
       /\ (pc' = "remote_prompt" /\ pc # "remote_prompt") => CommitStepEnds
       /\ pc = "rr_compare"
          => /\ frame.scenario = "remote_exists"
             /\ gitDir = "absent"
             /\ hist.commits = 0 /\ ~hist.staged /\ hist.pushes = 0]_vars

\* a remote recovery went through all four stages and pushed
C32_Witness ==
    /\ pc = "done"
    /\ exit = "0"
    /\ frame.recovered = "True"
    /\ hist.staged /\ hist.commits = 1 /\ hist.pushes = 1
    /\ committed # {}

\* the remote URL of the config file, when it has one that counts
ConfiguredUrl == ConfigGet(config_defaults, "remote_url", NoneStr)

\* C33: once the remote URL is resolved (here: read from the config file by
\* the classification of a recovery that has returned), the run asks for no
\* other URL and every later remote operation uses that URL
C33_UrlResolvedOnce ==
    [][(frame.recovered # "none" /\ ~Falsy(ConfiguredUrl))
       => /\ EventsNamed(events'.l, {"ask_push_url"}) = {}
          /\ frame'.push_url \in {NoneStr, ConfiguredUrl}
          /\ \A i \in EventsNamed(events'.l, {"remote_add", "remote_set_url"}) :
                 events'.l[i].a = ConfiguredUrl]_vars

\* C34: initialize_repo with .git in place issues no git command and leaves
\* the repository unchanged; without .git it issues git init and then the
\* rename of the branch to main; a failed rename alone lets initialize_repo
\* return, a failed git init makes it raise SystemExit (which ends main and
\* which the recoveries answer by returning False)
C34_InitializeRepo ==
    [][/\ (pc = "init_repo" /\ gitDir # "absent")
          => /\ events'.l = << >>
             /\ UNCHANGED repoVars
             /\ pc' = AfterInit(frame.caller)
       /\ (pc = "init_repo" /\ gitDir = "absent")
          => /\ Len(events'.l) >= 1 /\ events'.l[1].e = "init"
             /\ events'.l[1].r = "ok"
                => gitDir' = "dir" /\ pc' = "init_rename" /\ exit' = exit
             /\ events'.l[1].r = "fail"
                => /\ UNCHANGED repoVars
                   /\ IF frame.caller = "main"
                      THEN pc' = "done" /\ exit' = "1"
                      ELSE frame'.recovered = "False" /\ pc' = "revparse"
       /\ pc = "init_rename"
          => /\ Len(events'.l) = 1 /\ events'.l[1].e = "branch_M"
             /\ branch' = (IF events'.l[1].r = "ok" THEN "main" ELSE branch)
             /\ pc' = AfterInit(frame.caller)
             /\ exit' = exit /\ gitDir' = "dir"]_vars

\* the rename failed, the branch is still master, and main went on to stage
C34_Witness ==
    /\ pc = "sc_status"
    /\ gitDir = "dir"
    /\ branch = "master"
    /\ events.l = <<Ev("branch_M", NoStr, "fail")>>

\* the commands that change the project directory or the remote
Mutating ==
    {"init", "branch_M", "remote_add", "remote_set_url", "add", "add_all", "commit",
     "push", "push_force", "pull"}

\* a step of recover_detached_repository, initialize_repo called by it included
InRecovery ==
    \/ pc \in RecoverySteps
    \/ pc \in {"init_repo", "init_rename"} /\ frame.caller \in {"rl", "rr", "rr0"}

\* C35: in the recovery path no command that changes the project directory
\* or the remote is issued before the user has said yes to a recovery
\* confirmation, also when the comparison finds no change
C35_ConfirmedBeforeMutation ==
    [][(InRecovery /\ EventsNamed(events'.l, Mutating) # {}) => hist.agreed]_vars

\* C36: whenever main reports "Onboarding complete!" after the recovery path
\* (recover_detached_repository returned True), the project directory holds
\* repository metadata, also when it has no file or only a .gitignore
C36_CompleteMeansRepository ==
    (exit = "0" /\ IssuedWith("recover_detached_return", "True")) => is_git_repository(gitDir)

\* the step ends the push code with success: push_to_remote returns and main
\* ends with status 0, or the remote recovery returns True
PushEndsInSuccess ==
    IF pc \in RecoverySteps
    THEN frame'.recovered = "True" /\ pc' = "done" /\ exit' = "0"
    ELSE pc' = "done" /\ exit' = "0"

\* C37: the outcome the push step reports matches the remote: when a push
\* command of the step succeeded, the re-run that captures the error text
\* included, the step ends in success; it ends in failure only when no push
\* command updated the remote
C37_OutcomeMatchesRemote ==
    [][(\E i \in EventsNamed(events'.l, {"push", "push_force"}) : events'.l[i].r = "ok")
       => PushEndsInSuccess]_vars

\* the paths that are in the project and on the remote with the same bytes
SameOnBothSides ==
    {p \in DOMAIN tree \cap DOMAIN remote : tree[p].bytes = remote[p].bytes}

\* C38: after a remote recovery that ends with a successful push, every path
\* that was identical locally and on the remote is in the pushed commit
\* (stated for the plain and the forced push, which publish the recovery
\* commit as it is)
C38_UnchangedFilesPublished ==
    (/\ pc = "done"
     /\ frame.recovered = "True"
     /\ hist.pulls = 0
     /\ IssuedWith("push", "ok") \/ IssuedWith("push_force", "ok"))
    => SameOnBothSides \subseteq committed

\* how far a step of the push code is from its start
PushRank(step) ==
    CASE step \in {"p_remote"} -> 1
      [] step \in {"p_branch"} -> 2
      [] step \in {"p_target"} -> 3
      [] step \in {"p_push", "rr_push"} -> 4
      [] step \in {"p_repush", "rr_repush"} -> 5
      [] step \in {"p_choice", "rr_choice"} -> 6
      [] step \in {"p_pull", "rr_pull", "p_force_confirm", "rr_force_confirm"} -> 7
      [] step \in {"p_push_again", "rr_push_again", "p_force", "rr_force"} -> 8
      [] OTHER -> 0

\* the push commands of the running push code, the forced one included
PushCommands(h) == h.pushes + (IF h.forced THEN 1 ELSE 0)

\* C39: the push step ends after a bounded number of remote operations and
\* has no retry loop: every step of it leads to a later step of it or ends
\* it, it issues at most three push commands and at most one pull, and it
\* ends in success (status 0, recovery True) or in failure or cancellation
\* (status 1 or an exception, recovery False)
C39_PushBounded ==
    [][(pc \in PushSteps)
       => (/\ \/ pc' \in PushSteps /\ PushRank(pc') > PushRank(pc) /\ exit' = "running"
              \/ pc' = "done" /\ exit' \in {"0", "1", "uncaught"}
              \/ pc' = "revparse" /\ frame'.recovered = "False" /\ exit' = "running"
           /\ hist'.pulls <= 1
           /\ PushCommands(hist') \in 0..3)]_vars

\* three push commands and one pull: rejected, re-run, pulled, pushed again
C39_Witness ==
    /\ pc = "done"
    /\ exit = "0"
    /\ hist.pushes = 3
    /\ hist.pulls = 1
    /\ IssuedWith("push", "ok")

-----------------------------------------------------------------------------
(* The .gitignore step of main on its own (SpecGitignore)                  *)

\* what a project's .gitignore can be before the run: patterns, one padded
\* pattern, only white space, no byte at all; and patterns or white space in
\* a file whose read raises (no read permission, bytes that are not UTF-8)
GitignoreFileStates ==
    {File("ig_log", TRUE), File("ig_build", TRUE), File("ig_blank", TRUE),
     File("ig_empty", TRUE), File("ig_log", FALSE), File("ig_blank", FALSE)}

\* project trees of the .gitignore step: README.md or not, .gitignore or not
GitignoreTrees ==
    {r @@ g : r \in Trees({README}, {File("C1", TRUE)}, 1),
              g \in Trees({GitignorePath}, GitignoreFileStates, 1)}

InitGitignore ==
    /\ pc = "main"
    /\ tree \in GitignoreTrees
    /\ gitDir \in {"absent", "dir"}
    /\ head = FALSE
    /\ index = {}
    /\ committed = {}
    /\ branch = (IF gitDir = "dir" THEN "main" ELSE "none")
    /\ remote = << >>
    /\ config_defaults = << >>
    /\ git_installed \in BOOLEAN
    /\ argv = NoFlags
    /\ host = Host0
    /\ tempDirs = {}
    /\ made = << >>
    /\ frame = Frame0
    /\ events = [n |-> 0, l |-> << >>]
    /\ hist = Hist0
    /\ exit = "running"

NextGitignore ==
    \/ prompt_gitignore_patterns
    \/ create_default_gitignore

SpecGitignore == InitGitignore /\ [][NextGitignore]_vars

\* the project has a .gitignore whose content is not only white space
NonEmptyGitignore(files) ==
    /\ GitignorePath \in DOMAIN files
    /\ \E i \in 1..Len(FileLines(files[GitignorePath].bytes)) :
           Strip(FileLines(files[GitignorePath].bytes)[i]) # NoStr

\* the default patterns followed by the custom patterns under their header
DefaultThenCustom(custom) ==
    IF custom = << >> THEN default_patterns
    ELSE default_patterns \o <<NoStr, CustomHeader>> \o custom

\* C40: create_default_gitignore leaves a .gitignore with non-white-space
\* content as it was; the file it writes was missing or empty before and
\* holds the default patterns followed by the custom patterns afterwards
C40_NonEmptyGitignoreKept ==
    [][(pc = "create_gitignore")
       => (/\ NonEmptyGitignore(tree) => tree' = tree
           /\ tree' # tree
                 => /\ ~NonEmptyGitignore(tree)
                    /\ DOMAIN tree' = DOMAIN tree \cup {GitignorePath}
                    /\ \A p \in DOMAIN tree \ {GitignorePath} : tree'[p] = tree[p]
                    /\ FileLines(tree'[GitignorePath].bytes)
                          = DefaultThenCustom(frame.custom_patterns))]_vars
====
